---- MODULE Spec2Model ----
(***************************************************************************)
(* Rule evaluation engine of YojanaGPT (src/rule_evaluator.py).            *)
(*                                                                         *)
(* Python values are tagged records.  A Python str is a sequence of        *)
(* one-character strings, so that lower(), strip(), replace(), split(),    *)
(* substring tests, float() parsing and lexicographic comparison are       *)
(* computed, not assumed.  A Python number (int or float) is an exact      *)
(* rational n/d in lowest terms with d > 0; the model does not round as    *)
(* IEEE doubles do.                                                        *)
(***************************************************************************)
EXTENDS Integers, Sequences, FiniteSets, TLC

VARIABLES
    eligibility_structured,  \* first argument of evaluate_scheme_rules
    user_profile,            \* second argument of evaluate_scheme_rules
    mapping_file,            \* contents of rule_field_to_profile_field.json, or Absent
    result,                  \* what the call returned (or that it raised)
    pc,                      \* "call" before the call, "done" after it
    single_rule,             \* first argument of _evaluate_single_rule
    mapped_field,            \* what _map_field_name returned
    last_updated,            \* first argument of compute_freshness_penalty
    today,                   \* the date of datetime.now()
    penalty,                 \* what compute_freshness_penalty returned
    schemes_file,            \* the records of the file at SCHEMES_PATH, or Absent
    _schemes_df,             \* the cache of load_schemes_data
    semantic_search,         \* what semantic_search does when it is called
    weights,                 \* the arguments w_r, w_s, w_f
    top_k,                   \* the argument top_k
    effective_weights,       \* w_r, w_s, w_f of rank_schemes when it scores
    ranked,                  \* what the ranking call returned (or that it raised)
    call,                    \* the ranking function called, with gender_bucket
    thread_pc,               \* the statement each thread of the server is at
    AppState,                \* STATE, the AppState of backend/main.py
    _index,                  \* the cache of _get_index: the FAISS index
    _scheme_ids,             \* the cache of _get_index: the ids of the index
    _model,                  \* the cache of _get_model
    resources,               \* the locals of load_resources_for_api, by thread
    reads,                   \* how often each resource was initialized
    scheme_record,           \* the argument of extract_scheme_gender
    ranked_list              \* the argument of split_by_gender_buckets

engine_vars == <<single_rule, mapped_field>>

freshness_vars == <<last_updated, penalty>>

\* what a ranking call reads
request_vars == <<schemes_file, semantic_search, weights, top_k>>

\* what a ranking call writes
ranking_vars == <<_schemes_df, effective_weights, ranked, call>>

\* the server: its threads, what they share and what they hold
load_vars == <<thread_pc, AppState, _index, _scheme_ids, _model, resources, reads>>

gender_vars == <<scheme_record, ranked_list>>

vars ==
    <<eligibility_structured, user_profile, mapping_file, result, pc,
      engine_vars, freshness_vars, today, request_vars, ranking_vars,
      load_vars, gender_vars>>

----------------------------------------------------------------------------
(* Characters and strings *)

\* The characters the modelled strings are written in, in code-point order.
Chars ==
    << " ", "!", "'", ",", "-", ".", "/",
       "0", "1", "2", "3", "4", "5", "6", "7", "8", "9",
       ":", "<", "=", ">",
       "A", "B", "C", "D", "E", "F", "G", "H", "I", "J", "K", "L", "M",
       "N", "O", "P", "Q", "R", "S", "T", "U", "V", "W", "X", "Y", "Z",
       "[", "]", "_",
       "a", "b", "c", "d", "e", "f", "g", "h", "i", "j", "k", "l", "m",
       "n", "o", "p", "q", "r", "s", "t", "u", "v", "w", "x", "y", "z",
       "{", "}" >>

Ord(c) == CHOOSE i \in 1..Len(Chars) : Chars[i] = c

IsDigit(c) == Ord(c) >= Ord("0") /\ Ord(c) <= Ord("9")

IsUpper(c) == Ord(c) >= Ord("A") /\ Ord(c) <= Ord("Z")

LowerChar(c) == IF IsUpper(c) THEN Chars[Ord(c) - Ord("A") + Ord("a")] ELSE c

\* str.lower()
StrLower(s) == [i \in 1..Len(s) |-> LowerChar(s[i])]

\* str.replace(',', '')
StripCommas(s) == SelectSeq(s, LAMBDA c : c # ",")

RECURSIVE LStrip(_)
LStrip(s) == IF s # <<>> /\ Head(s) = " " THEN LStrip(Tail(s)) ELSE s

RECURSIVE RStrip(_)
RStrip(s) ==
    IF s # <<>> /\ s[Len(s)] = " " THEN RStrip(SubSeq(s, 1, Len(s) - 1)) ELSE s

\* str.strip()
StrStrip(s) == LStrip(RStrip(s))

\* needle in hay, for two strs
IsSubstring(needle, hay) ==
    \E i \in 0..(Len(hay) - Len(needle)) :
        SubSeq(hay, i + 1, i + Len(needle)) = needle

\* a < b for two strs: lexicographic by code point
RECURSIVE StrLess(_, _)
StrLess(a, b) ==
    IF b = <<>> THEN FALSE
    ELSE IF a = <<>> THEN TRUE
    ELSE IF Head(a) # Head(b) THEN Ord(Head(a)) < Ord(Head(b))
    ELSE StrLess(Tail(a), Tail(b))

\* str.split(sep) for a one-character separator
RECURSIVE StrSplit(_, _)
StrSplit(s, sep) ==
    IF \A i \in 1..Len(s) : s[i] # sep THEN <<s>>
    ELSE LET k == CHOOSE i \in 1..Len(s) :
                      s[i] = sep /\ \A j \in 1..(i - 1) : s[j] # sep
         IN  <<SubSeq(s, 1, k - 1)>> \o StrSplit(SubSeq(s, k + 1, Len(s)), sep)

RECURSIVE DigitsValue(_)
DigitsValue(s) ==
    IF s = <<>> THEN 0
    ELSE 10 * DigitsValue(SubSeq(s, 1, Len(s) - 1)) + (Ord(s[Len(s)]) - Ord("0"))

AllDigits(s) == s # <<>> /\ \A i \in 1..Len(s) : IsDigit(s[i])

\* The decimal integer literals float() and int() accept: optional blanks
\* around an optional minus sign and one or more digits.  The strings of the
\* model hold no other numeric literal (no fraction, exponent, inf or nan).
IsSignedDigits(t) ==
    AllDigits(IF t # <<>> /\ Head(t) = "-" THEN Tail(t) ELSE t)

IsIntLiteral(s) == IsSignedDigits(StrStrip(s))

SignedDigitsValue(t) ==
    IF Head(t) = "-" THEN 0 - DigitsValue(Tail(t)) ELSE DigitsValue(t)

IntLiteralValue(s) == SignedDigitsValue(StrStrip(s))

RECURSIVE DigitsOf(_)
DigitsOf(n) ==
    IF n < 10 THEN <<Chars[Ord("0") + n]>>
    ELSE DigitsOf(n \div 10) \o <<Chars[Ord("0") + (n % 10)]>>

\* str(n) for an int n
IntToStr(n) == IF n < 0 THEN <<"-">> \o DigitsOf(0 - n) ELSE DigitsOf(n)

----------------------------------------------------------------------------
(* Python values *)

RECURSIVE Gcd(_, _)
Gcd(a, b) == IF b = 0 THEN a ELSE Gcd(b, a % b)

Abs(x) == IF x < 0 THEN 0 - x ELSE x

None == [t |-> "none"]

\* the marker of a key a dict does not hold (not a Python value)
Absent == [t |-> "absent"]

PyBool(b) == [t |-> "bool", b |-> b]

\* the number n/d, d > 0, in lowest terms
PyFrac(n, d) ==
    LET g == Gcd(Abs(n), d) IN [t |-> "num", n |-> n \div g, d |-> d \div g]

PyNum(n) == [t |-> "num", n |-> n, d |-> 1]

PyStr(s) == [t |-> "str", s |-> s]

PyList(items) == [t |-> "list", items |-> items]

\* a dict, as the function from its keys (strs) to its values
PyDict(d) == [t |-> "dict", d |-> d]

IsNone(v) == v.t = "none"

\* isinstance(v, (int, float)): bool is a subclass of int
IsNumber(v) == v.t \in {"num", "bool"}

\* float(v) for a number v
ToFloat(v) == IF v.t = "bool" THEN PyNum(IF v.b THEN 1 ELSE 0) ELSE v

NumLess(a, b) == a.n * b.d < b.n * a.d

NumLeq(a, b) == a.n * b.d <= b.n * a.d

NumAdd(a, b) == PyFrac(a.n * b.d + b.n * a.d, a.d * b.d)

NumMul(a, b) == PyFrac(a.n * b.n, a.d * b.d)

\* a / b for b > 0
NumDiv(a, b) == PyFrac(a.n * b.d, a.d * b.n)

\* bool(v)
Truthy(v) ==
    CASE v.t = "none" -> FALSE
      [] v.t = "absent" -> FALSE
      [] v.t = "bool" -> v.b
      [] v.t = "num" -> v.n # 0
      [] v.t = "str" -> v.s # <<>>
      [] v.t = "list" -> v.items # <<>>
      [] v.t = "dict" -> DOMAIN v.d # {}

\* a == b: numbers by value (True == 1), strs by content, lists and dicts
\* element by element, None only with None; values of different kinds differ
RECURSIVE PyEq(_, _)
PyEq(a, b) ==
    IF IsNumber(a) /\ IsNumber(b) THEN ToFloat(a) = ToFloat(b)
    ELSE IF a.t # b.t THEN FALSE
    ELSE IF a.t = "list" THEN
        /\ Len(a.items) = Len(b.items)
        /\ \A i \in 1..Len(a.items) : PyEq(a.items[i], b.items[i])
    ELSE IF a.t = "dict" THEN
        /\ DOMAIN a.d = DOMAIN b.d
        /\ \A k \in DOMAIN a.d : PyEq(a.d[k], b.d[k])
    ELSE a = b

\* The outcome of the ordering comparisons of a with b: "lt", "eq" or "gt",
\* or "TypeError" when Python does not order the two values.
RECURSIVE PyCmp(_, _)
PyCmp(a, b) ==
    IF IsNumber(a) /\ IsNumber(b) THEN
        IF NumLess(ToFloat(a), ToFloat(b)) THEN "lt"
        ELSE IF NumLess(ToFloat(b), ToFloat(a)) THEN "gt" ELSE "eq"
    ELSE IF a.t = "str" /\ b.t = "str" THEN
        IF StrLess(a.s, b.s) THEN "lt" ELSE IF StrLess(b.s, a.s) THEN "gt" ELSE "eq"
    ELSE IF a.t = "list" /\ b.t = "list" THEN
        IF a.items = <<>> \/ b.items = <<>> THEN
            IF Len(a.items) < Len(b.items) THEN "lt"
            ELSE IF Len(a.items) > Len(b.items) THEN "gt" ELSE "eq"
        ELSE IF PyEq(Head(a.items), Head(b.items)) THEN
            PyCmp(PyList(Tail(a.items)), PyList(Tail(b.items)))
        ELSE PyCmp(Head(a.items), Head(b.items))
    ELSE "TypeError"

\* dict.get(key): None when the key is missing
DictGet(d, key) == IF key \in DOMAIN d THEN d[key] ELSE None

----------------------------------------------------------------------------
(* eval_operator *)

\* the operator spellings eval_operator tests for
OP_EQ == <<"=">>
OP_EQEQ == <<"=", "=">>
OP_NE == <<"!", "=">>
OP_LT == <<"<">>
OP_LE == <<"<", "=">>
OP_GT == <<">">>
OP_GE == <<">", "=">>
OP_IN == <<"i", "n">>
OP_CONTAINS == <<"c", "o", "n", "t", "a", "i", "n", "s">>
OP_BETWEEN == <<"b", "e", "t", "w", "e", "e", "n">>
OP_EXISTS == <<"e", "x", "i", "s", "t", "s">>
OP_NOT_EXISTS == <<"n", "o", "t", "_", "e", "x", "i", "s", "t", "s">>

KEY_MIN == <<"m", "i", "n">>
KEY_MAX == <<"m", "a", "x">>

\* safe_convert: a number becomes a float; anything float() parses after the
\* commas are removed becomes that float; another str is lower-cased; every
\* other value (None, list, dict) comes back unchanged
\* float(cleaned) for a str value, or value.lower() when float() rejects it
ConvertStr(s, cleaned) ==
    IF IsIntLiteral(cleaned) THEN PyNum(IntLiteralValue(cleaned))
    ELSE PyStr(StrLower(s))

safe_convert(value) ==
    IF IsNumber(value) THEN ToFloat(value)
    ELSE IF value.t = "str" THEN ConvertStr(value.s, StripCommas(value.s))
    ELSE value

\* user_value not in (None, False, "", "no", "false")
NotInAbsentTuple(user_value) ==
    \A x \in { None, PyBool(FALSE), PyStr(<<>>), PyStr(<<"n", "o">>),
               PyStr(<<"f", "a", "l", "s", "e">>) } : ~PyEq(user_value, x)

Status(b) == IF b THEN "matched" ELSE "unmet"

\* the comparison branch with the TypeError of unordered operands read as a
\* failed comparison instead of unknown
OrderStatus_type_error_unmet(operator, c) ==
    IF operator = OP_LT THEN Status(c = "lt")
    ELSE IF operator = OP_LE THEN Status(c \in {"lt", "eq"})
    ELSE IF operator = OP_GT THEN Status(c = "gt")
    ELSE Status(c \in {"gt", "eq"})

\* the standard comparison branch of eval_operator for <, <=, >, >=, c being
\* the outcome of comparing user_val with rule_val
OrderStatus(operator, c) ==
    IF c = "TypeError" THEN "unknown"
    ELSE IF operator = OP_LT THEN Status(c = "lt")
    ELSE IF operator = OP_LE THEN Status(c \in {"lt", "eq"})
    ELSE IF operator = OP_GT THEN Status(c = "gt")
    ELSE Status(c \in {"gt", "eq"})

\* the range test of the between branch on the converted bounds
InRangeStatus(user_val, min_val, max_val) ==
    IF ~(IsNumber(user_val) /\ IsNumber(min_val) /\ IsNumber(max_val))
    THEN "unknown"
    ELSE Status(NumLeq(min_val, user_val) /\ NumLeq(user_val, max_val))

BetweenStatus(user_val, rule_value) ==
    IF rule_value.t # "dict"
       \/ KEY_MIN \notin DOMAIN rule_value.d
       \/ KEY_MAX \notin DOMAIN rule_value.d
    THEN "unknown"
    ELSE InRangeStatus(user_val, safe_convert(rule_value.d[KEY_MIN]),
                       safe_convert(rule_value.d[KEY_MAX]))

InStatus(user_val, rule_val) ==
    IF rule_val.t = "list" THEN
        Status(\E i \in 1..Len(rule_val.items) : PyEq(user_val, rule_val.items[i]))
    ELSE IF rule_val.t = "dict" THEN
        IF user_val.t \in {"list", "dict"} THEN "unknown"  \* unhashable: TypeError
        ELSE Status(user_val.t = "str" /\ user_val.s \in DOMAIN rule_val.d)
    ELSE "unknown"

ContainsStatus(user_val, rule_val) ==
    IF user_val.t # "str" \/ rule_val.t # "str" THEN "unknown"
    ELSE Status(IsSubstring(StrLower(rule_val.s), StrLower(user_val.s)))

\* the branches of eval_operator on the converted operands user_val and
\* rule_val (rule_val is the raw rule_value for between)
OperatorStatus(operator, user_value, rule_value, user_val, rule_val) ==
    IF operator = OP_EXISTS THEN Status(NotInAbsentTuple(user_value))
    ELSE IF operator = OP_BETWEEN THEN BetweenStatus(user_val, rule_value)
    ELSE IF operator = OP_EQ THEN Status(PyEq(user_val, rule_val))
    ELSE IF operator = OP_NE THEN Status(~PyEq(user_val, rule_val))
    ELSE IF operator \in {OP_LT, OP_LE, OP_GT, OP_GE}
         THEN OrderStatus(operator, PyCmp(user_val, rule_val))
    ELSE IF operator = OP_IN THEN InStatus(user_val, rule_val)
    ELSE IF operator = OP_CONTAINS THEN ContainsStatus(user_val, rule_val)
    ELSE "unknown"

eval_operator(operator, user_value, rule_value) ==
    IF IsNone(user_value) THEN "unknown"
    ELSE OperatorStatus(operator, user_value, rule_value,
                        safe_convert(user_value),
                        IF operator # OP_BETWEEN THEN safe_convert(rule_value)
                        ELSE rule_value)

----------------------------------------------------------------------------
(* get_user_value *)

KEY_INCOME_ANNUAL == <<"i", "n", "c", "o", "m", "e", "_", "a", "n", "n", "u", "a", "l">>
KEY_ANNUAL_INCOME == <<"a", "n", "n", "u", "a", "l", "_", "i", "n", "c", "o", "m", "e">>
KEY_MONTHLY_INCOME ==
    <<"m", "o", "n", "t", "h", "l", "y", "_", "i", "n", "c", "o", "m", "e">>

\* what a call produced: a value, or an exception that leaves the function
Returned(v) == [raised |-> FALSE, value |-> v]
Raised == [raised |-> TRUE, value |-> None]

\* float(v): the float, or Raised (TypeError, ValueError)
PyFloat(v) ==
    IF IsNumber(v) THEN Returned(ToFloat(v))
    ELSE IF v.t = "str" /\ IsIntLiteral(v.s) THEN Returned(PyNum(IntLiteralValue(v.s)))
    ELSE Raised

\* field_mapping.get(field_path, field_path), or field_path when the file is
\* missing; Raised (TypeError) when the file is there and the key is unhashable
MappedField(mapping, field_path) ==
    IF mapping = Absent THEN Returned(field_path)
    ELSE IF field_path.t \in {"list", "dict"} THEN Raised
    ELSE IF field_path.t = "str" /\ field_path.s \in DOMAIN mapping
         THEN Returned(PyStr(mapping[field_path.s]))
    ELSE Returned(field_path)

\* value.get(list_key, [])[idx] inside the try block: caught is TRUE for the
\* KeyError, IndexError, AttributeError and TypeError the block turns into None
Element(v) == [caught |-> FALSE, value |-> v]
Caught == [caught |-> TRUE, value |-> None]

\* got[idx] for what value.get(list_key, []) gave
Subscript(got, idx) ==
    IF got.t = "list" THEN
        IF idx >= 0 /\ idx < Len(got.items) THEN Element(got.items[idx + 1])
        ELSE IF idx < 0 /\ 0 - idx <= Len(got.items)
             THEN Element(got.items[Len(got.items) + idx + 1])
        ELSE Caught
    ELSE IF got.t = "str" THEN
        IF idx >= 0 /\ idx < Len(got.s) THEN Element(PyStr(<<got.s[idx + 1]>>))
        ELSE IF idx < 0 /\ 0 - idx <= Len(got.s)
             THEN Element(PyStr(<<got.s[Len(got.s) + idx + 1]>>))
        ELSE Caught
    ELSE Caught

ListIndexStep(value, list_key, idx) ==
    IF value.t # "dict" THEN Caught
    ELSE Subscript(IF list_key \in DOMAIN value.d THEN value.d[list_key]
                   ELSE PyList(<<>>),
                   idx)

\* the loop over the dotted path: Raised for the ValueError of a segment such
\* as a[x] or a[0][1], which the try block does not catch
RECURSIVE WalkPath(_, _)

\* after value = value.get(list_key, [])[idx]
AfterIndex(step, rest) ==
    IF step.caught THEN Returned(None) ELSE WalkPath(step.value, rest)

\* a segment list_key[idx], split at "[": digits is idx without its "]"
IndexSegment(value, parts, digits, rest) ==
    IF ~IsIntLiteral(digits) THEN Raised
    ELSE AfterIndex(ListIndexStep(value, parts[1], IntLiteralValue(digits)), rest)

\* list_key, idx = key.split('['), for the parts of the split
SplitSegment(value, parts, rest) ==
    IF Len(parts) # 2 THEN Raised
    ELSE IndexSegment(value, parts, SubSeq(parts[2], 1, Len(parts[2]) - 1), rest)

\* after value = value.get(key)
AfterGet(next, rest) ==
    IF IsNone(next) THEN Returned(None) ELSE WalkPath(next, rest)

\* one round of the loop, for the segment key
WalkSegment(value, key, rest) ==
    IF (\E i \in 1..Len(key) : key[i] = "[") /\ key[Len(key)] = "]"
        THEN SplitSegment(value, StrSplit(key, "["), rest)
    ELSE IF value.t # "dict" THEN Returned(None)
    ELSE AfterGet(DictGet(value.d, key), rest)

WalkPath(value, keys) ==
    IF keys = <<>> THEN Returned(value)
    ELSE WalkSegment(value, Head(keys), Tail(keys))

\* the special case for income_annual / annual_income: found is FALSE when the
\* code falls through to the dotted path
\* float(mi) * 12, or None when float() raises
Annualized(monthly) ==
    IF monthly.raised THEN None ELSE NumMul(monthly.value, PyNum(12))

\* the choice with the monthly income looked at first
IncomeOf_monthly_first(ia, mi) ==
    IF ~IsNone(mi) THEN [found |-> TRUE, value |-> Annualized(PyFloat(mi))]
    ELSE IF ~IsNone(ia) THEN [found |-> TRUE, value |-> ia]
    ELSE [found |-> FALSE, value |-> None]

\* the choice between income_annual (ia) and monthly_income (mi)
IncomeOf(ia, mi) ==
    IF ~IsNone(ia) THEN [found |-> TRUE, value |-> ia]
    ELSE IF ~IsNone(mi) THEN [found |-> TRUE, value |-> Annualized(PyFloat(mi))]
    ELSE [found |-> FALSE, value |-> None]

EffectiveIncome(profile, field_path) ==
    IF ~(PyEq(field_path, PyStr(KEY_INCOME_ANNUAL))
         \/ PyEq(field_path, PyStr(KEY_ANNUAL_INCOME)))
    THEN [found |-> FALSE, value |-> None]
    ELSE IncomeOf(DictGet(profile.d, KEY_INCOME_ANNUAL),
                  DictGet(profile.d, KEY_MONTHLY_INCOME))

\* get_user_value after the mapping file is read: mapped is the mapped field,
\* income the outcome of the income special case
LookUp(profile, mapped, income) ==
    IF mapped.raised THEN Raised
    ELSE IF income.found THEN Returned(income.value)
    ELSE IF mapped.value.t # "str" THEN Raised  \* no split(): AttributeError
    ELSE WalkPath(profile, StrSplit(mapped.value.s, "."))

get_user_value(profile, field_path, mapping) ==
    IF ~Truthy(profile) \/ ~Truthy(field_path) THEN Returned(None)
    ELSE LookUp(profile, MappedField(mapping, field_path),
                EffectiveIncome(profile, field_path))

----------------------------------------------------------------------------
(* evaluate_scheme_rules *)

KEY_REQUIRED == <<"r", "e", "q", "u", "i", "r", "e", "d">>
KEY_OPTIONAL == <<"o", "p", "t", "i", "o", "n", "a", "l">>
KEY_FIELD == <<"f", "i", "e", "l", "d">>
KEY_OPERATOR == <<"o", "p", "e", "r", "a", "t", "o", "r">>
KEY_OP == <<"o", "p">>
KEY_VALUE == <<"v", "a", "l", "u", "e">>
KEY_CONFIDENCE == <<"c", "o", "n", "f", "i", "d", "e", "n", "c", "e">>

\* str(v) for the values a clause gives as its operator: a str, an int, a
\* bool or None
PyStrOf(v) ==
    CASE v.t = "str" -> v.s
      [] v.t = "num" -> IntToStr(v.n)
      [] v.t = "bool" -> IF v.b THEN <<"T", "r", "u", "e">>
                         ELSE <<"F", "a", "l", "s", "e">>
      [] v.t = "none" -> <<"N", "o", "n", "e">>

\* the alias table of _normalize_clause, applied to the stripped, lower-cased
\* spelling
CanonicalOperator(op) ==
    IF op \in {<<"=">>, <<"=", "=">>, <<"e", "q">>, <<"e", "q", "u", "a", "l", "s">>}
        THEN OP_EQEQ
    ELSE IF op \in {<<"!", "=">>, <<"n", "e", "q">>, <<"n", "o", "t", "=">>,
                    <<"n", "o", "t", " ", "e", "q", "u", "a", "l", "s">>}
        THEN OP_NE
    ELSE IF op \in {<<">">>, <<"g", "t">>} THEN OP_GT
    ELSE IF op \in {<<"<">>, <<"l", "t">>} THEN OP_LT
    ELSE IF op \in {<<">", "=">>, <<"g", "t", "e">>} THEN OP_GE
    ELSE IF op \in {<<"<", "=">>, <<"l", "t", "e">>} THEN OP_LE
    ELSE op

\* _normalize_clause: the clause with its operator in canonical spelling, the
\* defaults for field and value, and confidence as a float; Raised when
\* float() rejects the confidence
\* c.get("operator") or c.get("op") or ""
RawOperator(first, second) ==
    IF Truthy(first) THEN first ELSE IF Truthy(second) THEN second ELSE PyStr(<<>>)

\* {**c, "operator": op, "field": ..., "value": ..., "confidence": ...}
NormalizedClause(c, op, conf) ==
    IF conf.raised THEN Raised
    ELSE Returned(PyDict(
        [k \in DOMAIN c \cup {KEY_OPERATOR, KEY_FIELD, KEY_VALUE, KEY_CONFIDENCE} |->
            IF k = KEY_OPERATOR THEN PyStr(op)
            ELSE IF k = KEY_CONFIDENCE THEN conf.value
            ELSE IF k \in DOMAIN c THEN c[k]
            ELSE IF k = KEY_FIELD THEN PyStr(<<>>)
            ELSE None]))

_normalize_clause(clause) ==
    NormalizedClause(
        clause.d,
        CanonicalOperator(StrLower(StrStrip(PyStrOf(
            RawOperator(DictGet(clause.d, KEY_OPERATOR), DictGet(clause.d, KEY_OP)))))),
        IF KEY_CONFIDENCE \in DOMAIN clause.d THEN PyFloat(clause.d[KEY_CONFIDENCE])
        ELSE Returned(PyFrac(1, 2)))

\* spec.get(key) or [], then the items the comprehension iterates over: a
\* str or a dict holds no clause object, a number cannot be iterated
GroupItems(eligibility_struct, key) ==
    LET g == DictGet(eligibility_struct.d, key) IN
    IF ~Truthy(g) THEN Returned(<<>>)
    ELSE IF g.t = "list" THEN Returned(g.items)
    ELSE IF g.t \in {"str", "dict"} THEN Returned(<<>>)
    ELSE Raised

\* one group of _load_clauses: the normalized clause objects of the group,
\* skipping the items that are no dict
\* [_normalize_clause(c) for c in items if isinstance(c, dict)]
NormalizeAll(dicts) == [i \in 1..Len(dicts) |-> _normalize_clause(dicts[i])]

\* the clauses of a group, raised when normalizing one of them raised
Loaded(norm) ==
    [raised |-> \E i \in 1..Len(norm) : norm[i].raised,
     clauses |-> [i \in 1..Len(norm) |-> norm[i].value]]

LoadItems(items) ==
    IF items.raised THEN [raised |-> TRUE, clauses |-> <<>>]
    ELSE Loaded(NormalizeAll(SelectSeq(items.value, LAMBDA c : c.t = "dict")))

LoadGroup(eligibility_struct, key) == LoadItems(GroupItems(eligibility_struct, key))

\* the clause evaluate_rule reports, with its status: looked is what
\* get_user_value gave for the field
EvaluatedClause(rule, scope, field, operator, value, looked) ==
    [raised |-> looked.raised,
     clause |-> [scope |-> scope,
                 field |-> field,
                 profile_field |-> IF Truthy(field) THEN field ELSE None,
                 operator |-> operator,
                 value |-> value,
                 user_value |-> looked.value,
                 status |-> IF ~IsNone(looked.value)
                            THEN eval_operator(operator, looked.value, value)
                            ELSE "unknown",
                 confidence |-> rule.d[KEY_CONFIDENCE]]]

\* evaluate_rule: the clause of the result with its status
evaluate_rule(rule, scope, profile, mapping) ==
    EvaluatedClause(
        rule, scope, rule.d[KEY_FIELD],
        IF rule.d[KEY_OPERATOR].s = OP_EQEQ THEN OP_EQ ELSE rule.d[KEY_OPERATOR].s,
        rule.d[KEY_VALUE],
        IF Truthy(rule.d[KEY_FIELD])
        THEN get_user_value(profile, rule.d[KEY_FIELD], mapping)
        ELSE Returned(None))

CountStatus(clauses, status) ==
    Cardinality({i \in 1..Len(clauses) : clauses[i].status = status})

\* calculate_score with the unknown clauses left out of the numerator
calculate_score_unknown_ignored(total, matched, unknown) ==
    IF total = 0 THEN PyNum(1) ELSE NumDiv(PyNum(matched), PyNum(total))

\* calculate_score
calculate_score(total, matched, unknown) ==
    IF total = 0 THEN PyNum(1)
    ELSE NumDiv(NumAdd(PyNum(matched), NumMul(PyFrac(1, 2), PyNum(unknown))),
                PyNum(total))

\* the summary of a scope, its total counting the matched clauses only
ScopeSummary_total_of_matched(clauses) ==
    LET total == CountStatus(clauses, "matched")
        matched == CountStatus(clauses, "matched")
        unknown == CountStatus(clauses, "unknown")
    IN  [score |-> calculate_score(total, matched, unknown),
         total |-> total,
         matched |-> matched,
         unmet |-> CountStatus(clauses, "unmet"),
         unknown |-> unknown,
         clauses |-> clauses]

ScopeSummary(clauses) ==
    LET total == Len(clauses)
        matched == CountStatus(clauses, "matched")
        unknown == CountStatus(clauses, "unknown")
    IN  [score |-> calculate_score(total, matched, unknown),
         total |-> total,
         matched |-> matched,
         unmet |-> CountStatus(clauses, "unmet"),
         unknown |-> unknown,
         clauses |-> clauses]

\* the overall R score (80% required, 20% optional)
OverallR(required, optional) ==
    LET required_weight == IF required.total > 0 THEN PyFrac(4, 5) ELSE PyNum(0)
        optional_weight == IF optional.total > 0 THEN PyFrac(1, 5) ELSE PyNum(0)
        total_weight == NumAdd(required_weight, optional_weight)
    IN  IF NumLess(PyNum(0), total_weight)
        THEN NumDiv(NumAdd(NumMul(required_weight, required.score),
                           NumMul(optional_weight, optional.score)),
                    total_weight)
        ELSE PyNum(0)

\* the result structure evaluate_scheme_rules starts from
InitialResult ==
    LET empty == [score |-> PyNum(0), total |-> 0, matched |-> 0, unmet |-> 0,
                  unknown |-> 0, clauses |-> <<>>]
    IN  [raised |-> FALSE,
         R |-> PyNum(0),
         required |-> empty,
         optional |-> empty,
         matched_clauses |-> <<>>,
         unmet_clauses |-> <<>>,
         unknown_clauses |-> <<>>]

RaisedResult == [raised |-> TRUE]

\* the loop over one group: evaluate_rule for each of its clauses
EvaluateGroup(clauses, scope, profile, mapping) ==
    [i \in 1..Len(clauses) |-> evaluate_rule(clauses[i], scope, profile, mapping)]

ClausesOf(evaluated) == [i \in 1..Len(evaluated) |-> evaluated[i].clause]

AnyRaised(evaluated) == \E i \in 1..Len(evaluated) : evaluated[i].raised

\* the list result["<status>_clauses"]
ClausesWithStatus(clauses, status) == SelectSeq(clauses, LAMBDA c : c.status = status)

\* the result, from the summaries of the two scopes
FinalResult(required, optional) ==
    [raised |-> FALSE,
     R |-> OverallR(required, optional),
     required |-> required,
     optional |-> optional,
     matched_clauses |->
         ClausesWithStatus(required.clauses \o optional.clauses, "matched"),
     unmet_clauses |->
         ClausesWithStatus(required.clauses \o optional.clauses, "unmet"),
     unknown_clauses |->
         ClausesWithStatus(required.clauses \o optional.clauses, "unknown")]

\* after both loops: reqEval and optEval are what evaluate_rule gave
Summarized(reqEval, optEval) ==
    IF AnyRaised(reqEval) \/ AnyRaised(optEval) THEN RaisedResult
    ELSE FinalResult(ScopeSummary(ClausesOf(reqEval)),
                     ScopeSummary(ClausesOf(optEval)))

\* after _load_clauses: req and opt are the loaded groups
EvaluateLoaded(req, opt, profile, mapping) ==
    IF req.raised \/ opt.raised THEN RaisedResult
    ELSE Summarized(EvaluateGroup(req.clauses, "required", profile, mapping),
                    EvaluateGroup(opt.clauses, "optional", profile, mapping))

evaluate_scheme_rules(spec, profile, mapping) ==
    IF ~Truthy(spec) \/ ~Truthy(profile) THEN InitialResult
    ELSE EvaluateLoaded(LoadGroup(spec, KEY_REQUIRED),
                        LoadGroup(spec, KEY_OPTIONAL), profile, mapping)

----------------------------------------------------------------------------
(* The strings the inputs are written with *)

S_KARNATAKA == <<"K", "a", "r", "n", "a", "t", "a", "k", "a">>

S_KARNATAKA_UPPER == <<"K", "A", "R", "N", "A", "T", "A", "K", "A">>

S_KARNATAKA_LOWER == <<"k", "a", "r", "n", "a", "t", "a", "k", "a">>

S_GOA == <<"G", "o", "a">>

S_GOA_LOWER == <<"g", "o", "a">>

S_NATAK == <<"n", "a", "t", "a", "k">>

S_NO == <<"n", "o">>

S_NO_CAPITAL == <<"N", "o">>

S_FALSE == <<"f", "a", "l", "s", "e">>

S_FALSE_UPPER == <<"F", "A", "L", "S", "E">>

S_YES == <<"y", "e", "s">>

S_DATE_2020 == <<"2", "0", "2", "0", "-", "0", "1", "-", "1", "5">>

S_DATE_2018 == <<"2", "0", "1", "8", "-", "0", "1", "-", "0", "1">>

S_45 == <<"4", "5">>

S_60 == <<"6", "0">>

S_1_000 == <<"1", ",", "0", "0", "0">>

S_HIGH == <<"h", "i", "g", "h">>

F_STATE == <<"s", "t", "a", "t", "e">>

F_AGE == <<"a", "g", "e">>

F_DISTRICT == <<"d", "i", "s", "t", "r", "i", "c", "t">>

F_RESIDENCE == <<"R", "e", "s", "i", "d", "e", "n", "c", "e">>

F_RESIDENCE_LOWER == <<"r", "e", "s", "i", "d", "e", "n", "c", "e">>

F_CASTE == <<"c", "a", "s", "t", "e">>

F_CATEGORY == <<"c", "a", "t", "e", "g", "o", "r", "y">>

S_SC == <<"S", "C">>

F_OTHER == <<"o", "t", "h", "e", "r">>

F_DOCUMENTS == <<"d", "o", "c", "u", "m", "e", "n", "t", "s">>

F_AADHAR == <<"a", "a", "d", "h", "a", "r">>

F_DOCUMENTS_AADHAR == <<"d", "o", "c", "u", "m", "e", "n", "t", "s", ".", "a", "a", "d", "h", "a", "r">>

F_TAGS == <<"t", "a", "g", "s">>

F_TAGS_0 == <<"t", "a", "g", "s", "[", "0", "]">>

F_TAGS_9 == <<"t", "a", "g", "s", "[", "9", "]">>

F_TAGS_X == <<"t", "a", "g", "s", "[", "x", "]">>

F_STATE_0 == <<"s", "t", "a", "t", "e", "[", "0", "]">>

KEY_NOTES == <<"n", "o", "t", "e", "s">>

O_EQ_PADDED == <<" ", "=", " ">>

O_EQ_WORD == <<"e", "q">>

O_GTE == <<"g", "t", "e">>

O_IN_UPPER == <<"I", "N">>

O_LIKE == <<"l", "i", "k", "e">>

----------------------------------------------------------------------------
(* The inputs of a call *)

\* the longest group of clauses in the specs built from CoreItems
MaxClauses == 2

\* a dict from its keys to its values, without the keys given as Absent
DropAbsent(f) == [k \in {x \in DOMAIN f : f[x] # Absent} |-> f[k]]

Clause(field, operator, value, confidence) ==
    PyDict(DropAbsent(KEY_FIELD :> field @@ KEY_OPERATOR :> operator
                      @@ KEY_VALUE :> value @@ KEY_CONFIDENCE :> confidence))

\* a clause that names its operator under the key "op"
ClauseWithOp(field, op, value) ==
    PyDict(KEY_FIELD :> field @@ KEY_OP :> op @@ KEY_VALUE :> value)

\* the values a profile holds for the attribute the clauses test
UserValues ==
    { None, PyStr(S_KARNATAKA), PyStr(S_KARNATAKA_LOWER), PyStr(S_GOA),
      PyStr(<<>>), PyStr(S_NO), PyStr(S_NO_CAPITAL), PyStr(S_FALSE_UPPER),
      PyStr(S_YES), PyStr(S_DATE_2020), PyStr(S_45), PyStr(S_1_000),
      PyNum(45), PyNum(0), PyNum(70), PyBool(TRUE), PyBool(FALSE) }

\* the values a clause compares with (Absent: the clause has no value key)
RuleValues ==
    { Absent, None, PyStr(S_KARNATAKA), PyStr(S_KARNATAKA_UPPER),
      PyStr(S_GOA_LOWER), PyStr(S_NATAK), PyStr(S_DATE_2018), PyStr(S_60),
      PyNum(18), PyNum(45), PyNum(60),
      PyList(<<PyStr(S_KARNATAKA), PyStr(S_GOA)>>),
      PyList(<<PyStr(S_KARNATAKA_LOWER), PyStr(S_GOA_LOWER)>>),
      PyList(<<PyNum(18), PyNum(60)>>),
      PyList(<<PyStr(S_HIGH), PyNum(60)>>),
      PyDict(KEY_MIN :> PyNum(18) @@ KEY_MAX :> PyNum(60)),
      PyDict(KEY_MIN :> PyStr(S_HIGH) @@ KEY_MAX :> PyNum(60)),
      PyDict(KEY_MIN :> PyNum(18)) }

\* the operators of the data model, in the spellings clauses use
AllowedOperators ==
    { OP_EQ, OP_NE, OP_GT, OP_GE, OP_LT, OP_LE, OP_IN, OP_CONTAINS, OP_BETWEEN,
      OP_EXISTS, OP_NOT_EXISTS }

\* what a clause gives as its operator (Absent: no operator key)
RuleOperators ==
    {PyStr(op) : op \in AllowedOperators
                     \cup {OP_EQEQ, O_EQ_PADDED, O_EQ_WORD, O_GTE, O_IN_UPPER,
                           O_LIKE, <<>>}}
    \cup {Absent, None}

ExampleProfile ==
    PyDict(F_STATE :> PyStr(S_KARNATAKA) @@ F_AGE :> PyNum(45)
           @@ KEY_INCOME_ANNUAL :> PyNum(120000))

YoungGoaProfile == PyDict(F_STATE :> PyStr(S_GOA) @@ F_AGE :> PyNum(17))

NestedProfile ==
    PyDict(F_CATEGORY :> PyStr(S_SC)
           @@ F_DOCUMENTS :> PyDict(F_AADHAR :> PyStr(S_YES))
           @@ F_TAGS :> PyList(<<PyStr(S_KARNATAKA)>>)
           @@ F_STATE :> PyStr(S_KARNATAKA))

MonthlyIncomeProfile == PyDict(KEY_MONTHLY_INCOME :> PyNum(5000))

BothIncomesProfile ==
    PyDict(KEY_MONTHLY_INCOME :> PyNum(5000) @@ KEY_INCOME_ANNUAL :> PyNum(200000))

\* income_annual given as 0, and given as None, next to a monthly income
ZeroAnnualProfile ==
    PyDict(KEY_MONTHLY_INCOME :> PyNum(5000) @@ KEY_INCOME_ANNUAL :> PyNum(0))

NullAnnualProfile ==
    PyDict(KEY_MONTHLY_INCOME :> PyNum(5000) @@ KEY_INCOME_ANNUAL :> None)

EmptyProfile == PyDict(<<>>)

Profiles ==
    {EmptyProfile, ExampleProfile, YoungGoaProfile, NestedProfile,
     MonthlyIncomeProfile, BothIncomesProfile, ZeroAnnualProfile,
     NullAnnualProfile}
    \cup {PyDict(F_STATE :> v) : v \in UserValues}

\* every operator with every value, on the attribute the profiles vary
BroadClauses ==
    {Clause(PyStr(F_STATE), op, v, Absent) : op \in RuleOperators, v \in RuleValues}

\* clauses on other attributes and paths
FieldClauses ==
    {Clause(f, PyStr(op), v, Absent) :
        f \in {Absent, None, PyStr(<<>>), PyNum(5), PyList(<<PyStr(F_STATE)>>),
               PyStr(F_AGE), PyStr(F_DISTRICT), PyStr(F_RESIDENCE),
               PyStr(F_RESIDENCE_LOWER), PyStr(F_CASTE), PyStr(F_DOCUMENTS_AADHAR),
               PyStr(F_TAGS_0), PyStr(F_TAGS_9), PyStr(F_TAGS_X), PyStr(F_STATE_0),
               PyStr(KEY_INCOME_ANNUAL), PyStr(KEY_ANNUAL_INCOME)},
        op \in {OP_EQ, OP_LE, OP_BETWEEN, OP_EXISTS},
        v \in {PyStr(S_KARNATAKA), PyNum(70000), PyList(<<PyNum(18), PyNum(60)>>),
               PyDict(KEY_MIN :> PyNum(18) @@ KEY_MAX :> PyNum(60))}}

\* clauses that differ in their confidence entry, or name the operator as "op"
ConfidenceClauses ==
    {Clause(PyStr(F_STATE), PyStr(OP_EQ), PyStr(S_KARNATAKA), conf) :
        conf \in {None, PyStr(S_HIGH), PyStr(S_45), PyNum(1), PyFrac(19, 20),
                  PyBool(TRUE), PyList(<<>>)}}
    \cup {ClauseWithOp(PyStr(F_STATE), PyStr(op), PyStr(S_KARNATAKA)) :
              op \in {OP_EQ, O_GTE, O_LIKE}}

ProbeClauses == BroadClauses \cup FieldClauses \cup ConfidenceClauses

\* specs of one clause
ProbeSpecs ==
    {PyDict(KEY_REQUIRED :> PyList(<<c>>)) : c \in ProbeClauses}
    \cup {PyDict(KEY_OPTIONAL :> PyList(<<c>>)) : c \in ConfidenceClauses}

\* the items of the longer groups: three clauses and an item that is no clause
CoreItems ==
    { Clause(PyStr(F_STATE), PyStr(OP_EQ), PyStr(S_KARNATAKA), PyFrac(19, 20)),
      Clause(PyStr(F_AGE), PyStr(OP_GE), PyNum(18), Absent),
      Clause(PyStr(F_AGE), PyStr(OP_BETWEEN),
             PyList(<<PyNum(18), PyNum(60)>>), Absent),
      PyStr(KEY_NOTES) }

SeqsUpTo(S, n) == UNION {[1..k -> S] : k \in 0..n}

\* what a spec holds under "required" or "optional" (Absent: no such key)
Groups == {Absent, None} \cup {PyList(s) : s \in SeqsUpTo(CoreItems, MaxClauses)}

CoreSpecs ==
    {PyDict(DropAbsent(KEY_REQUIRED :> r @@ KEY_OPTIONAL :> o)) :
        r \in Groups, o \in Groups}
    \cup {PyDict(KEY_NOTES :> PyStr(S_HIGH))}

YoungKarnatakaProfile ==
    PyDict(F_STATE :> PyStr(S_KARNATAKA) @@ F_AGE :> PyNum(17))

CoreProfiles == {EmptyProfile, ExampleProfile, YoungGoaProfile,
                 YoungKarnatakaProfile}

\* rule_field_to_profile_field.json as build_field_mapping writes it for the
\* fields state, age, caste and Residence
SampleMapping ==
    F_STATE :> F_STATE @@ F_AGE :> F_AGE @@ F_CASTE :> F_CATEGORY
    @@ F_RESIDENCE :> F_OTHER

MappingFiles == {Absent, SampleMapping}

----------------------------------------------------------------------------
(* The state machine: one call of evaluate_scheme_rules *)

\* no server is running and no function of gender bucketing is called
NoServer ==
    /\ thread_pc = <<>>
    /\ AppState = None
    /\ _index = None
    /\ _scheme_ids = None
    /\ _model = None
    /\ resources = <<>>
    /\ reads = None
    /\ scheme_record = None
    /\ ranked_list = None

Init ==
    /\ \/ /\ eligibility_structured \in ProbeSpecs
          /\ user_profile \in Profiles
       \/ /\ eligibility_structured \in CoreSpecs
          /\ user_profile \in CoreProfiles
    /\ mapping_file \in MappingFiles
    /\ result = None
    /\ pc = "call"
    /\ single_rule = None
    /\ mapped_field = None
    /\ last_updated = None
    /\ today = None
    /\ penalty = None
    /\ schemes_file = Absent
    /\ _schemes_df = None
    /\ semantic_search = None
    /\ weights = None
    /\ top_k = 0
    /\ effective_weights = None
    /\ ranked = None
    /\ call = None
    /\ NoServer

Evaluate ==
    /\ pc = "call"
    /\ result' = evaluate_scheme_rules(eligibility_structured, user_profile,
                                       mapping_file)
    /\ pc' = "done"
    /\ UNCHANGED <<eligibility_structured, user_profile, mapping_file,
                   engine_vars, freshness_vars, today, request_vars,
                   ranking_vars,
                   load_vars, gender_vars>>

Next == Evaluate

Spec == Init /\ [][Next]_vars

----------------------------------------------------------------------------
(* Properties of evaluate_scheme_rules *)

Done == pc = "done"

ReturnedResult == Done /\ ~result.raised

Scopes == {"required", "optional"}

ScopeKey(scope) == IF scope = "required" THEN KEY_REQUIRED ELSE KEY_OPTIONAL

ScopeOf(r, scope) == IF scope = "required" THEN r.required ELSE r.optional

\* the clause objects the spec lists for a scope
Listed(scope) ==
    LET g == DictGet(eligibility_structured.d, ScopeKey(scope))
    IN  IF g.t = "list" THEN SelectSeq(g.items, LAMBDA c : c.t = "dict") ELSE <<>>

\* the clauses of the result, required first
ResultClauses == result.required.clauses \o result.optional.clauses

Half == PyFrac(1, 2)

\* C1: R is the weighted average (0.8 required, 0.2 optional) of the scores of
\* the scopes that list at least one clause: both scopes give
\* 0.8*required.score + 0.2*optional.score, a single non-empty scope gives
\* that scope's score, and no clause at all gives R = 0.0 with both scope
\* scores 1.0.
C1_WeightedAverageOfScopes ==
    ReturnedResult =>
        LET nr == Len(Listed("required"))
            no == Len(Listed("optional"))
            rs == result.required.score
            os == result.optional.score
        IN  /\ (nr > 0 /\ no > 0) =>
                   result.R = NumAdd(NumMul(PyFrac(4, 5), rs), NumMul(PyFrac(1, 5), os))
            /\ (nr = 0 /\ no > 0) => result.R = os
            /\ (nr > 0 /\ no = 0) => result.R = rs
            /\ (nr = 0 /\ no = 0) =>
                   result.R = PyNum(0) /\ rs = PyNum(1) /\ os = PyNum(1)

\* C2: every scope the result reports with total > 0 has
\* score = (matched + 0.5*unknown) / total, matched and unknown being the
\* numbers of that scope's clauses with status matched and unknown.
C2_ScopeScoreFormula ==
    ReturnedResult =>
        \A scope \in Scopes :
            LET s == ScopeOf(result, scope)
                m == Cardinality({i \in 1..Len(s.clauses) :
                                      s.clauses[i].status = "matched"})
                u == Cardinality({i \in 1..Len(s.clauses) :
                                      s.clauses[i].status = "unknown"})
            IN  s.total > 0 =>
                    /\ s.matched = m
                    /\ s.unknown = u
                    /\ s.score = PyFrac(2 * m + u, 2 * s.total)

\* a result whose required scope mixes matched and unknown clauses
C2_Witness ==
    /\ ReturnedResult
    /\ result.required.total = 2
    /\ result.required.matched = 1
    /\ result.required.unknown = 1
    /\ result.required.score = PyFrac(3, 4)
    /\ result.optional.total > 0

\* the spec with an empty list put where it lists no group
WithEmptyGroups(spec) ==
    PyDict([k \in DOMAIN spec.d \cup {KEY_REQUIRED, KEY_OPTIONAL} |->
               IF k \in DOMAIN spec.d THEN spec.d[k] ELSE PyList(<<>>)])

\* C3: a scope with zero clauses has score 1.0 for every spec and profile, and
\* a spec that lacks a group (the empty spec {} included) gets the scope scores
\* of the spec with that group given as an empty list.
C3_EmptyScopeScoresOne ==
    ReturnedResult =>
        /\ \A scope \in Scopes :
               Len(Listed(scope)) = 0 => ScopeOf(result, scope).score = PyNum(1)
        /\ LET filled == evaluate_scheme_rules(
                   WithEmptyGroups(eligibility_structured), user_profile, mapping_file)
           IN  /\ ~filled.raised
               /\ \A scope \in Scopes :
                      ScopeOf(result, scope).score = ScopeOf(filled, scope).score

\* the operator a clause names, as the result reports it
IsExistenceOperator(op) == op \in {OP_EXISTS, OP_NOT_EXISTS}

\* C4: a clause with an operator other than exists/not_exists whose profile
\* attribute is missing or None is reported with status unknown and counts 0.5
\* in its scope score, for every profile; the empty profile {} against
\* required = [state = Karnataka] gives unknown, required.score 0.5, R 0.5.
C4_MissingAttributeIsUnknown ==
    ReturnedResult =>
        \A scope \in Scopes :
            LET listed == Listed(scope)
                s == ScopeOf(result, scope)
                missing(c) ==
                    /\ DictGet(c.d, KEY_FIELD).t = "str"
                    /\ DictGet(c.d, KEY_FIELD).s # <<>>
                    /\ LET v == get_user_value(user_profile, c.d[KEY_FIELD],
                                               mapping_file)
                       IN  ~v.raised /\ IsNone(v.value)
            IN  /\ \A i \in 1..Len(listed) :
                       missing(listed[i]) =>
                           /\ Len(s.clauses) = Len(listed)
                           /\ ~IsExistenceOperator(s.clauses[i].operator) =>
                                  s.clauses[i].status = "unknown"
                /\ (Len(listed) = 1 /\ missing(listed[1])
                    /\ DictGet(listed[1].d, KEY_OPERATOR) = PyStr(OP_EQ)) =>
                       s.score = Half

\* float() accepts the value once its thousands separators are removed
Coercible(v) ==
    \/ IsNumber(v)
    \/ v.t = "str" /\ IsIntLiteral(StripCommas(v.s))

CoercedValue(v) ==
    IF IsNumber(v) THEN ToFloat(v) ELSE PyNum(IntLiteralValue(StripCommas(v.s)))

\* the bounds of a between clause: a two-element list or an object {min, max}
HasBounds(v) ==
    \/ v.t = "list" /\ Len(v.items) = 2
    \/ v.t = "dict" /\ {KEY_MIN, KEY_MAX} \subseteq DOMAIN v.d

LowerBound(v) == IF v.t = "list" THEN v.items[1] ELSE v.d[KEY_MIN]

UpperBound(v) == IF v.t = "list" THEN v.items[2] ELSE v.d[KEY_MAX]

\* C5: a between clause takes its bounds as [min, max] or as {min, max}; in
\* both forms it is matched iff min <= profile value <= max, unmet outside the
\* range, unknown when a bound is not numeric.
C5_BetweenBothForms ==
    ReturnedResult =>
        \A i \in 1..Len(ResultClauses) :
            LET c == ResultClauses[i] IN
            (/\ c.operator = OP_BETWEEN
             /\ Coercible(c.user_value)
             /\ HasBounds(c.value)) =>
                IF Coercible(LowerBound(c.value)) /\ Coercible(UpperBound(c.value))
                THEN c.status =
                         Status(/\ NumLeq(CoercedValue(LowerBound(c.value)),
                                          CoercedValue(c.user_value))
                                /\ NumLeq(CoercedValue(c.user_value),
                                          CoercedValue(UpperBound(c.value))))
                ELSE c.status = "unknown"

\* the value counts as absent: None, False, "", "no" or "false" in any letter case
CountsAsAbsent(v) ==
    \/ IsNone(v)
    \/ PyEq(v, PyBool(FALSE))
    \/ v.t = "str" /\ StrLower(v.s) \in {<<>>, S_NO, S_FALSE}

\* C6: an exists clause is matched iff the profile value is not one of None,
\* False, "", "no", "false" (any letter case); a not_exists clause is matched
\* exactly when the exists clause on that value is not.
C6_ExistsAndNotExists ==
    ReturnedResult =>
        \A i \in 1..Len(ResultClauses) :
            LET c == ResultClauses[i] IN
            /\ c.operator = OP_EXISTS =>
                   (c.status = "matched" <=> ~CountsAsAbsent(c.user_value))
            /\ c.operator = OP_NOT_EXISTS =>
                   (c.status = "matched" <=> CountsAsAbsent(c.user_value))

OrderOperators == {OP_LT, OP_LE, OP_GT, OP_GE}

\* C7: for >, >=, < and <=, a clause with an operand that float() rejects is
\* unknown, also when both operands are non-numeric strings such as dates.
C7_UncoercibleIsUnknown ==
    ReturnedResult =>
        \A i \in 1..Len(ResultClauses) :
            LET c == ResultClauses[i] IN
            (/\ c.operator \in OrderOperators
             /\ ~(Coercible(c.user_value) /\ Coercible(c.value))) =>
                c.status = "unknown"

\* the status the comparison of two lower-cased strings gives
StringOrderStatus(op, a, b) ==
    LET x == StrLower(a)
        y == StrLower(b)
    IN  CASE op = OP_LT -> Status(StrLess(x, y))
          [] op = OP_LE -> Status(~StrLess(y, x))
          [] op = OP_GT -> Status(StrLess(y, x))
          [] op = OP_GE -> Status(~StrLess(x, y))

\* C7 as amended: for >, >=, < and <=, the clause is unknown when exactly one
\* operand can be coerced to a float or when the clause value is None; when
\* neither can be coerced and both are strings it is matched or unmet by the
\* lexicographic order of the lower-cased strings.
C7_OneSidedUncoercibleIsUnknown ==
    ReturnedResult =>
        \A i \in 1..Len(ResultClauses) :
            LET c == ResultClauses[i] IN
            c.operator \in OrderOperators =>
                /\ (Coercible(c.user_value) # Coercible(c.value)) =>
                       c.status = "unknown"
                /\ IsNone(c.value) => c.status = "unknown"
                /\ (/\ c.user_value.t = "str" /\ c.value.t = "str"
                    /\ ~Coercible(c.user_value) /\ ~Coercible(c.value)) =>
                       c.status = StringOrderStatus(c.operator, c.user_value.s,
                                                    c.value.s)

\* a date compared with a date, and a date compared with a number
C7_Witness ==
    /\ ReturnedResult
    /\ \E i \in 1..Len(ResultClauses) :
           LET c == ResultClauses[i] IN
           /\ c.operator = OP_GE
           /\ c.user_value = PyStr(S_DATE_2020)
           /\ c.value = PyStr(S_DATE_2018)
           /\ c.status = "matched"

\* the value with every string in it lower-cased
LowerCased(v) ==
    IF v.t = "str" THEN PyStr(StrLower(v.s))
    ELSE IF v.t = "list" THEN
        PyList([i \in 1..Len(v.items) |->
                   IF v.items[i].t = "str" THEN PyStr(StrLower(v.items[i].s))
                   ELSE v.items[i]])
    ELSE v

TextOperators == {OP_EQ, OP_NE, OP_CONTAINS, OP_IN}

\* C8: for =, !=, contains and in, the status does not depend on letter case:
\* spelling the profile value, the clause value or the elements of an in-list
\* in another case leaves the status unchanged; profile state "Karnataka" is
\* matched by state in ["Karnataka", ...].
C8_CaseInsensitiveText ==
    ReturnedResult =>
        \A i \in 1..Len(ResultClauses) :
            LET c == ResultClauses[i] IN
            (c.operator \in TextOperators /\ ~IsNone(c.user_value)) =>
                /\ c.status = eval_operator(c.operator, LowerCased(c.user_value),
                                            LowerCased(c.value))
                /\ (/\ c.operator = OP_IN
                    /\ c.user_value.t = "str"
                    /\ c.value.t = "list"
                    /\ \E k \in 1..Len(c.value.items) :
                           c.value.items[k] = c.user_value) =>
                       c.status = "matched"

\* C9: a clause whose operator is outside the allowed set, or whose value is
\* missing (None) while its operator is not exists/not_exists, is unknown:
\* never matched, never unmet.
C9_UnsupportedOrValuelessIsUnknown ==
    ReturnedResult =>
        \A i \in 1..Len(ResultClauses) :
            LET c == ResultClauses[i] IN
            (\/ c.operator \notin AllowedOperators
             \/ IsNone(c.value) /\ ~IsExistenceOperator(c.operator)) =>
                c.status = "unknown"

\* both groups of the spec are lists of clause objects (or not given)
GroupsAreClauseLists ==
    \A scope \in Scopes :
        LET g == DictGet(eligibility_structured.d, ScopeKey(scope))
        IN  \/ ScopeKey(scope) \notin DOMAIN eligibility_structured.d
            \/ g.t = "list" /\ \A i \in 1..Len(g.items) : g.items[i].t = "dict"

\* C10: evaluate_scheme_rules never raises for a spec whose groups are lists
\* of clause objects, whatever their field, operator, value and confidence
\* entries hold.
C10_NeverRaises == (Done /\ GroupsAreClauseLists) => ~result.raised

\* the profile's entry for an attribute, None when it has none
ProfileEntry(key) == DictGet(user_profile.d, key)

----------------------------------------------------------------------------
(* rule_engine *)

ALLOWED_OPERATORS ==
    { OP_EQ, OP_IN, OP_CONTAINS, OP_GE, OP_LE, OP_GT, OP_LT, OP_BETWEEN,
      OP_EXISTS, OP_NOT_EXISTS }

\* the table read from rule_field_to_profile_field.json; no table entries
\* when the file is missing
_load_field_mapping(file) == IF file = Absent THEN <<>> ELSE file

\* the look-up of _map_field_name for the stripped name and its lower-cased
\* spelling, with the fallback the names outside the table take
MappedKey(key, lowered, mapping) ==
    IF key \in DOMAIN mapping THEN mapping[key]
    ELSE IF lowered \in DOMAIN mapping THEN mapping[lowered]
    ELSE key

StrippedKey(key, mapping) == MappedKey(key, StrLower(key), mapping)

_map_field_name(field, mapping) ==
    IF field = <<>> THEN F_OTHER ELSE StrippedKey(StrStrip(field), mapping)

F_LAND_AREA == <<"l", "a", "n", "d", "_", "a", "r", "e", "a">>

\* the attributes UserProfile declares as float: str() writes them with a
\* fraction
FloatAttributes == {KEY_INCOME_ANNUAL, KEY_MONTHLY_INCOME, F_LAND_AREA}

\* getattr(profile, attr, None) on a UserProfile whose set attributes are the
\* entries of the dict
_get_profile_value(profile, attr) == DictGet(profile.d, attr)

\* repr(v) of a list element: a str in quotes, anything else as str() gives it
ElementRepr(v) ==
    IF v.t = "str" THEN <<"'">> \o v.s \o <<"'">> ELSE PyStrOf(v)

RECURSIVE JoinReprs(_)
JoinReprs(items) ==
    IF items = <<>> THEN <<>>
    ELSE IF Len(items) = 1 THEN ElementRepr(Head(items))
    ELSE ElementRepr(Head(items)) \o <<",", " ">> \o JoinReprs(Tail(items))

\* str(value) of a clause's value: a str, an int, a bool, None, or a list of
\* these
ValueStr(v) ==
    IF v.t = "list" THEN <<"[">> \o JoinReprs(v.items) \o <<"]">>
    ELSE PyStrOf(v)

\* str(profile_val) of an attribute: a float attribute holding a whole number
\* is written with ".0"
ProfileStr(attr, v) ==
    IF v.t = "num" /\ attr \in FloatAttributes
    THEN IntToStr(v.n) \o <<".", "0">>
    ELSE PyStrOf(v)

\* float(s) of the stripped text, None when it is empty or no number
CoerceText(s) ==
    IF s = <<>> THEN None
    ELSE IF IsSignedDigits(s) THEN PyNum(SignedDigitsValue(s))
    ELSE None

\* _coerce_numeric: str() of a list or a dict is never a numeric literal
_coerce_numeric(value) ==
    CASE value.t = "none" -> None
      [] value.t = "num" -> value
      [] value.t = "bool" -> PyNum(IF value.b THEN 1 ELSE 0)
      [] value.t = "str" -> CoerceText(StrStrip(value.s))
      [] value.t \in {"list", "dict"} -> None

RuleEvaluation(rule, passed, reason) ==
    [rule |-> rule, passed |-> passed, reason |-> reason]

\* numeric comparisons of _evaluate_single_rule, right being the coerced value
NumericCompare(rule, operator, left, right) ==
    IF IsNone(right)
    THEN RuleEvaluation(rule, None, "rule_value_not_numeric")
    ELSE RuleEvaluation(rule,
             PyBool(CASE operator = OP_GT -> NumLess(right, left)
                      [] operator = OP_LT -> NumLess(left, right)
                      [] operator = OP_GE -> NumLeq(right, left)
                      [] OTHER -> NumLeq(left, right)),
             "numeric_compare")

BetweenCheck(rule, left, lo, hi) ==
    IF IsNone(lo) \/ IsNone(hi)
    THEN RuleEvaluation(rule, None, "between_value_not_numeric")
    ELSE RuleEvaluation(rule, PyBool(NumLeq(lo, left) /\ NumLeq(left, hi)),
                        "between_check")

\* the bounds of a between clause: [min, max], {"min": x, "max": y}, or none
BetweenLow(value) ==
    IF value.t = "list" /\ Len(value.items) = 2 THEN _coerce_numeric(value.items[1])
    ELSE IF value.t = "dict" THEN _coerce_numeric(DictGet(value.d, KEY_MIN))
    ELSE None

BetweenHigh(value) ==
    IF value.t = "list" /\ Len(value.items) = 2 THEN _coerce_numeric(value.items[2])
    ELSE IF value.t = "dict" THEN _coerce_numeric(DictGet(value.d, KEY_MAX))
    ELSE None

NumericRule(rule, operator, value, left) ==
    IF IsNone(left)
    THEN RuleEvaluation(rule, None, "profile_value_not_numeric")
    ELSE IF operator \in {OP_GT, OP_LT, OP_GE, OP_LE}
    THEN NumericCompare(rule, operator, left, _coerce_numeric(value))
    ELSE IF operator = OP_BETWEEN
    THEN BetweenCheck(rule, left, BetweenLow(value), BetweenHigh(value))
    ELSE RuleEvaluation(rule, None, "unsupported_rule_type")

\* the checks on the texts str(profile_val) and str(value)
TextRule(rule, operator, value, profile_val, profile_text) ==
    IF operator = OP_EQ
    THEN RuleEvaluation(rule, PyBool(profile_text = ValueStr(value)),
                        "equality_check")
    ELSE IF operator = OP_CONTAINS
    THEN RuleEvaluation(rule, PyBool(IsSubstring(ValueStr(value), profile_text)),
                        "contains_check")
    ELSE IF operator = OP_IN
    THEN RuleEvaluation(rule,
             PyBool(IF value.t = "list"
                    THEN \E i \in 1..Len(value.items) :
                             profile_text = ValueStr(value.items[i])
                    ELSE profile_text = ValueStr(value)),
             "in_check")
    ELSE NumericRule(rule, operator, value, _coerce_numeric(profile_val))

\* _evaluate_single_rule from the look-up of the profile value on
CheckProfileValue(rule, operator, value, mapped, profile_val) ==
    IF operator = OP_EXISTS
    THEN RuleEvaluation(rule, PyBool(~IsNone(profile_val)), "exists_check")
    ELSE IF operator = OP_NOT_EXISTS
    THEN RuleEvaluation(rule, PyBool(IsNone(profile_val)), "not_exists_check")
    ELSE IF IsNone(profile_val)
    THEN RuleEvaluation(rule, None, "missing_profile_value")
    ELSE TextRule(rule, operator, value, profile_val,
                  ProfileStr(mapped, profile_val))

\* _evaluate_single_rule from the mapped field on
MappedRule(rule, operator, value, mapped, profile) ==
    IF mapped = F_OTHER
    THEN RuleEvaluation(rule, None, "field_mapped_to_other")
    ELSE IF ~Truthy(operator) \/ operator.t # "str"
            \/ operator.s \notin ALLOWED_OPERATORS
    THEN RuleEvaluation(rule, None, "unsupported_operator")
    ELSE IF operator.s \notin {OP_EXISTS, OP_NOT_EXISTS} /\ IsNone(value)
    THEN RuleEvaluation(rule, None, "missing_rule_value")
    ELSE CheckProfileValue(rule, operator.s, value, mapped,
                           _get_profile_value(profile, mapped))

\* str(raw_field or ""), the name _evaluate_single_rule hands to the mapper
FieldArgument(raw_field) ==
    IF Truthy(raw_field) THEN PyStrOf(raw_field) ELSE <<>>

_evaluate_single_rule(rule, profile, field_mapping) ==
    MappedRule(rule, DictGet(rule.d, KEY_OPERATOR), DictGet(rule.d, KEY_VALUE),
               _map_field_name(FieldArgument(DictGet(rule.d, KEY_FIELD)),
                               field_mapping),
               profile)

----------------------------------------------------------------------------
(* The inputs of _evaluate_single_rule *)

F_STATE_CAPITAL == <<"S", "t", "a", "t", "e">>

F_STATE_UPPER == <<"S", "T", "A", "T", "E">>

F_STATE_PADDED == <<" ", "s", "t", "a", "t", "e", " ">>

F_RESIDENCE_UPPER == <<"R", "E", "S", "I", "D", "E", "N", "C", "E">>

F_BLANK == <<" ">>

F_HOBBY == <<"h", "o", "b", "b", "y">>

\* the names a rule gives as its field: spellings of names the table holds,
\* names it does not hold, the empty name and a blank one
FieldNames ==
    { F_STATE, F_STATE_CAPITAL, F_STATE_UPPER, F_STATE_PADDED,
      F_RESIDENCE, F_RESIDENCE_LOWER, F_RESIDENCE_UPPER,
      F_CASTE, F_AGE, F_DISTRICT, F_HOBBY, F_OTHER, F_BLANK, <<>> }

\* the values str() is taken of: every value of RuleValues but the dicts
TextValues == {v \in RuleValues : v.t # "dict"}

EngineOperators ==
    {PyStr(op) : op \in ALLOWED_OPERATORS \cup {OP_NE}} \cup {Absent, None}

\* the value a rule of operator op may carry
EngineValues(op) ==
    IF op.t = "str" /\ op.s \in {OP_EQ, OP_CONTAINS, OP_IN}
    THEN TextValues ELSE RuleValues

EngineRules ==
    {Clause(f, PyStr(OP_EQ), PyStr(S_KARNATAKA), Absent) :
        f \in {PyStr(n) : n \in FieldNames} \cup {None, Absent}}
    \cup UNION { UNION { {Clause(PyStr(f), op, v, Absent) : v \in EngineValues(op)} :
                         op \in EngineOperators } :
                 f \in {F_STATE, F_AGE, KEY_INCOME_ANNUAL, F_RESIDENCE} }

\* the UserProfile objects, as the dict of their set attributes
EngineProfiles == {EmptyProfile, ExampleProfile, YoungGoaProfile}

----------------------------------------------------------------------------
(* The state machine: _map_field_name and _evaluate_single_rule on one rule *)

EngineInit ==
    /\ single_rule \in EngineRules
    /\ user_profile \in EngineProfiles
    /\ mapping_file \in MappingFiles
    /\ eligibility_structured = None
    /\ result = None
    /\ mapped_field = None
    /\ last_updated = None
    /\ today = None
    /\ schemes_file = Absent
    /\ _schemes_df = None
    /\ semantic_search = None
    /\ weights = None
    /\ top_k = 0
    /\ effective_weights = None
    /\ ranked = None
    /\ call = None
    /\ NoServer
    /\ penalty = None
    /\ pc = "rule"

\* the call of _map_field_name at the head of _evaluate_single_rule
MapFieldName ==
    /\ pc = "rule"
    /\ mapped_field' =
           PyStr(_map_field_name(FieldArgument(DictGet(single_rule.d, KEY_FIELD)),
                                 _load_field_mapping(mapping_file)))
    /\ pc' = "mapped"
    /\ UNCHANGED <<eligibility_structured, user_profile, mapping_file, result,
                   single_rule, freshness_vars, today, request_vars,
                   ranking_vars,
                   load_vars, gender_vars>>

EvaluateSingleRule ==
    /\ pc = "mapped"
    /\ result' = _evaluate_single_rule(single_rule, user_profile,
                                       _load_field_mapping(mapping_file))
    /\ pc' = "evaluated"
    /\ UNCHANGED <<eligibility_structured, user_profile, mapping_file,
                   single_rule, mapped_field, freshness_vars, today,
                   request_vars, ranking_vars,
                   load_vars, gender_vars>>

EngineNext == MapFieldName \/ EvaluateSingleRule

EngineSpec == EngineInit /\ [][EngineNext]_vars

----------------------------------------------------------------------------
(* Properties of the field mapper *)

\* the name the rule of the state hands to the mapper
RuleFieldName == FieldArgument(DictGet(single_rule.d, KEY_FIELD))

\* the name is a spelling of a key of the alias table
InAliasTable(name, table) ==
    \E k \in DOMAIN table : StrLower(k) = StrLower(StrStrip(name))

\* C12: the field mapper returns a name for every raw field name, the same
\* name for all case variants of a raw name, and "other" for every name that
\* is not in the alias table; a rule whose field maps to "other" evaluates to
\* unknown (passed is None).
C12_FieldMapperTotalCaseInsensitive ==
    /\ pc \in {"mapped", "evaluated"} =>
           /\ mapped_field.t = "str"
           /\ \A variant \in FieldNames :
                  StrLower(variant) = StrLower(RuleFieldName) =>
                      mapped_field =
                          PyStr(_map_field_name(variant,
                                    _load_field_mapping(mapping_file)))
           /\ ~InAliasTable(RuleFieldName, _load_field_mapping(mapping_file)) =>
                  mapped_field = PyStr(F_OTHER)
    /\ pc = "evaluated" /\ mapped_field = PyStr(F_OTHER) =>
           IsNone(result.passed)

----------------------------------------------------------------------------
(* compute_freshness_penalty *)

\* a calendar date, as datetime holds it
Date(y, m, d) == [year |-> y, month |-> m, day |-> d]

IsLeap(y) == y % 4 = 0 /\ (y % 100 # 0 \/ y % 400 = 0)

DaysInMonth(y, m) ==
    IF m = 2 THEN (IF IsLeap(y) THEN 29 ELSE 28)
    ELSE IF m \in {4, 6, 9, 11} THEN 30
    ELSE 31

RECURSIVE DaysBeforeMonth(_, _)
DaysBeforeMonth(y, m) ==
    IF m = 1 THEN 0 ELSE DaysBeforeMonth(y, m - 1) + DaysInMonth(y, m - 1)

\* the days from 0001-01-01 to the date, as date subtraction counts them
Ordinal(date) ==
    (date.year - 1) * 365 + (date.year - 1) \div 4 - (date.year - 1) \div 100
    + (date.year - 1) \div 400
    + DaysBeforeMonth(date.year, date.month) + date.day

\* the directive %Y: four digits
IsYearText(t) == Len(t) = 4 /\ AllDigits(t)

\* the directive %m: 1 to 12, in one or two digits
IsMonthText(t) ==
    AllDigits(t) /\ Len(t) <= 2 /\ DigitsValue(t) >= 1 /\ DigitsValue(t) <= 12

\* the directive %d: 1 to 31 in one or two digits, or a blank and one digit
IsDayText(t) ==
    \/ AllDigits(t) /\ Len(t) <= 2 /\ DigitsValue(t) >= 1 /\ DigitsValue(t) <= 31
    \/ Len(t) = 2 /\ t[1] = " " /\ IsDigit(t[2]) /\ t[2] # "0"

DayValue(t) == IF t[1] = " " THEN DigitsValue(Tail(t)) ELSE DigitsValue(t)

\* datetime(year, month, day): ValueError for year 0 and for a day the month
\* does not have
CheckedDate(y, m, d) ==
    IF y >= 1 /\ d <= DaysInMonth(y, m) THEN Returned(Date(y, m, d)) ELSE Raised

\* the three parts of the text between the hyphens, read as %Y-%m-%d
ParseParts(parts) ==
    IF Len(parts) = 3 /\ IsYearText(parts[1]) /\ IsMonthText(parts[2])
       /\ IsDayText(parts[3])
    THEN CheckedDate(DigitsValue(parts[1]), DigitsValue(parts[2]),
                     DayValue(parts[3]))
    ELSE Raised

\* datetime.strptime(text.split('T')[0], '%Y-%m-%d'): Raised is ValueError
ParseDate(text) == ParseParts(StrSplit(StrSplit(text, "T")[1], "-"))

\* the step of the penalty at one year, with the boundary day on the far side
AgePenalty_exclusive(days_old) ==
    IF days_old < 365 THEN PyNum(0) ELSE PyFrac(1, 10)

AgePenalty(days_old) ==
    IF days_old <= 365 THEN PyNum(0) ELSE PyFrac(1, 10)

ParsedPenalty(parsed, now) ==
    IF parsed.raised THEN PyFrac(5, 100)
    ELSE AgePenalty(Ordinal(now) - Ordinal(parsed.value))

compute_freshness_penalty(updated, now) ==
    IF ~Truthy(updated) \/ updated.t # "str" THEN PyFrac(5, 100)
    ELSE ParsedPenalty(ParseDate(updated.s), now)

----------------------------------------------------------------------------
(* The inputs of compute_freshness_penalty *)
D_2024_06_15 == <<"2", "0", "2", "4", "-", "0", "6", "-", "1", "5">>
D_2024_06_14 == <<"2", "0", "2", "4", "-", "0", "6", "-", "1", "4">>
D_2024_06_16 == <<"2", "0", "2", "4", "-", "0", "6", "-", "1", "6">>
D_2023_06_15 == <<"2", "0", "2", "3", "-", "0", "6", "-", "1", "5">>
D_2023_06_16 == <<"2", "0", "2", "3", "-", "0", "6", "-", "1", "6">>
D_2023_03_02 == <<"2", "0", "2", "3", "-", "0", "3", "-", "0", "2">>
D_2023_03_01 == <<"2", "0", "2", "3", "-", "0", "3", "-", "0", "1">>
D_2025_06_15 == <<"2", "0", "2", "5", "-", "0", "6", "-", "1", "5">>
D_2026_01_01 == <<"2", "0", "2", "6", "-", "0", "1", "-", "0", "1">>
D_2019_12_31 == <<"2", "0", "1", "9", "-", "1", "2", "-", "3", "1">>
D_2024_02_29 == <<"2", "0", "2", "4", "-", "0", "2", "-", "2", "9">>
D_SHORT_MONTH == <<"2", "0", "2", "4", "-", "6", "-", "1", "5">>
D_BLANK_DAY == <<"2", "0", "2", "4", "-", "0", "6", "-", " ", "5">>
D_WITH_TIME == <<"2", "0", "2", "4", "-", "0", "6", "-", "1", "5", "T", "1", "0", ":", "3", "0", ":", "0", "0">>
D_SPACE_TIME == <<"2", "0", "2", "4", "-", "0", "6", "-", "1", "5", " ", "1", "0", ":", "3", "0", ":", "0", "0">>
D_DAY_FIRST == <<"1", "5", "-", "0", "6", "-", "2", "0", "2", "4">>
D_SLASHES == <<"2", "0", "2", "4", "/", "0", "6", "/", "1", "5">>
D_2023_02_29 == <<"2", "0", "2", "3", "-", "0", "2", "-", "2", "9">>
D_MONTH_13 == <<"2", "0", "2", "4", "-", "1", "3", "-", "0", "1">>
D_JUNE_31 == <<"2", "0", "2", "4", "-", "0", "6", "-", "3", "1">>
D_YEAR_0 == <<"0", "0", "0", "0", "-", "0", "1", "-", "0", "1">>
D_NO_DAY == <<"2", "0", "2", "4", "-", "0", "6">>
D_SHORT_YEAR == <<"2", "4", "-", "0", "6", "-", "1", "5">>
D_PADDED == <<" ", "2", "0", "2", "4", "-", "0", "6", "-", "1", "5">>
D_WORD == <<"r", "e", "c", "e", "n", "t", "l", "y">>
D_ONLY_TIME == <<"T", "1", "0", ":", "3", "0", ":", "0", "0">>
\* the texts of last_updated, each with the calendar date it writes (None:
\* it writes no date in the form year-month-day)
DatedTexts ==
    { [text |-> D_2024_06_15, date |-> Date(2024, 6, 15)],
      [text |-> D_2024_06_14, date |-> Date(2024, 6, 14)],
      [text |-> D_2024_06_16, date |-> Date(2024, 6, 16)],
      [text |-> D_2023_06_15, date |-> Date(2023, 6, 15)],
      [text |-> D_2023_06_16, date |-> Date(2023, 6, 16)],
      [text |-> D_2023_03_02, date |-> Date(2023, 3, 2)],
      [text |-> D_2023_03_01, date |-> Date(2023, 3, 1)],
      [text |-> D_2025_06_15, date |-> Date(2025, 6, 15)],
      [text |-> D_2026_01_01, date |-> Date(2026, 1, 1)],
      [text |-> D_2019_12_31, date |-> Date(2019, 12, 31)],
      [text |-> D_2024_02_29, date |-> Date(2024, 2, 29)],
      [text |-> D_SHORT_MONTH, date |-> Date(2024, 6, 15)],
      [text |-> D_BLANK_DAY, date |-> Date(2024, 6, 5)],
      [text |-> D_WITH_TIME, date |-> Date(2024, 6, 15)],
      [text |-> D_SPACE_TIME, date |-> None],
      [text |-> D_DAY_FIRST, date |-> None],
      [text |-> D_SLASHES, date |-> None],
      [text |-> D_2023_02_29, date |-> None],
      [text |-> D_MONTH_13, date |-> None],
      [text |-> D_JUNE_31, date |-> None],
      [text |-> D_YEAR_0, date |-> None],
      [text |-> D_NO_DAY, date |-> None],
      [text |-> D_SHORT_YEAR, date |-> None],
      [text |-> D_PADDED, date |-> None],
      [text |-> D_WORD, date |-> None],
      [text |-> D_ONLY_TIME, date |-> None] }

\* what a record holds as last_updated: no value, a text, or a number
LastUpdatedValues ==
    {None, PyStr(<<>>), PyNum(20240615), PyNum(0)}
    \cup {PyStr(e.text) : e \in DatedTexts}

\* the days a request is made on
Todays ==
    { Date(2025, 6, 15), Date(2024, 6, 15), Date(2024, 3, 1), Date(2024, 2, 29),
      Date(2023, 1, 1) }

----------------------------------------------------------------------------
(* The state machine: one call of compute_freshness_penalty *)

FreshnessInit ==
    /\ last_updated \in LastUpdatedValues
    /\ today \in Todays
    /\ penalty = None
    /\ eligibility_structured = None
    /\ user_profile = None
    /\ mapping_file = Absent
    /\ result = None
    /\ single_rule = None
    /\ mapped_field = None
    /\ schemes_file = Absent
    /\ _schemes_df = None
    /\ semantic_search = None
    /\ weights = None
    /\ top_k = 0
    /\ effective_weights = None
    /\ ranked = None
    /\ call = None
    /\ NoServer
    /\ pc = "freshness"

ComputeFreshnessPenalty ==
    /\ pc = "freshness"
    /\ penalty' = compute_freshness_penalty(last_updated, today)
    /\ pc' = "penalized"
    /\ UNCHANGED <<eligibility_structured, user_profile, mapping_file, result,
                   engine_vars, last_updated, today, request_vars,
                   ranking_vars,
                   load_vars, gender_vars>>

FreshnessNext == ComputeFreshnessPenalty

FreshnessSpec == FreshnessInit /\ [][FreshnessNext]_vars

----------------------------------------------------------------------------
(* Properties of compute_freshness_penalty *)

\* the date the text of last_updated writes, None when it writes none or
\* last_updated is no text
WrittenDate ==
    IF last_updated.t = "str"
       /\ \E e \in DatedTexts : e.text = last_updated.s
    THEN (CHOOSE e \in DatedTexts : e.text = last_updated.s).date
    ELSE None

\* C16: compute_freshness_penalty returns 0.05 for a missing or unparsable
\* date, 0.0 for a date at most 365 days before today and 0.1 for an older
\* one; a date exactly 365 days old gives 0.0 and one 366 days old gives 0.1.
C16_FreshnessStepFunction ==
    pc = "penalized" =>
        /\ WrittenDate = None => penalty = PyFrac(5, 100)
        /\ WrittenDate # None =>
               penalty = IF Ordinal(today) - Ordinal(WrittenDate) <= 365
                         THEN PyNum(0) ELSE PyFrac(1, 10)
        /\ today = Date(2025, 6, 15) /\ last_updated = PyStr(D_2024_06_15) =>
               penalty = PyNum(0)
        /\ today = Date(2025, 6, 15) /\ last_updated = PyStr(D_2024_06_14) =>
               penalty = PyFrac(1, 10)
        /\ today = Date(2024, 2, 29) /\ last_updated = PyStr(D_2023_03_01) =>
               penalty = PyNum(0)
        /\ today = Date(2024, 3, 1) /\ last_updated = PyStr(D_2023_03_01) =>
               penalty = PyFrac(1, 10)

\* a date exactly 365 days before today has been given its penalty
C16_Witness ==
    /\ pc = "penalized"
    /\ today = Date(2025, 6, 15)
    /\ last_updated = PyStr(D_2024_06_15)
    /\ Ordinal(today) - Ordinal(WrittenDate) = 365
    /\ penalty = PyNum(0)

----------------------------------------------------------------------------
(* rank_schemes *)

NumNeg(a) == [a EXCEPT !.n = 0 - a.n]

NumSub(a, b) == NumAdd(a, NumNeg(b))

\* max(0.0, min(1.0, x))
Clamp01(x) ==
    IF NumLess(x, PyNum(0)) THEN PyNum(0)
    ELSE IF NumLess(PyNum(1), x) THEN PyNum(1)
    ELSE x

RECURSIVE PowerOfTen(_)
PowerOfTen(k) == IF k = 0 THEN 1 ELSE 10 * PowerOfTen(k - 1)

\* the whole number nearest to n/d for n >= 0, the even one of two at the
\* same distance
NearestEven(n, d) ==
    IF 2 * (n % d) > d \/ (2 * (n % d) = d /\ (n \div d) % 2 = 1)
    THEN n \div d + 1
    ELSE n \div d

\* round(x, digits) of the exact number x
Round(x, digits) ==
    IF x.n < 0
    THEN PyFrac(0 - NearestEven((0 - x.n) * PowerOfTen(digits), x.d),
                PowerOfTen(digits))
    ELSE PyFrac(NearestEven(x.n * PowerOfTen(digits), x.d), PowerOfTen(digits))

\* the weights of a call, and the ones scoring uses
Weights(r, s, f) == [w_r |-> r, w_s |-> s, w_f |-> f]

InUnitRange(x) == NumLeq(PyNum(0), x) /\ NumLeq(x, PyNum(1))

ValidWeights(w) == InUnitRange(w.w_r) /\ InUnitRange(w.w_s) /\ InUnitRange(w.w_f)

\* 1 / 1e-9
EPSILON_INVERSE == 1000000000

\* abs(total - 1.0) > 1e-9 for total = n/d: |n - d| * 1e9 > d
FarFromOne(total) ==
    /\ total.n # total.d
    /\ total.d \div Abs(total.n - total.d) < EPSILON_INVERSE

DEFAULT_WEIGHTS == Weights(PyFrac(6, 10), PyFrac(3, 10), PyFrac(1, 10))

\* the rescaling of the weights, w_f rescaled with the other two
NormalizedWeights_all_three(w, total) ==
    IF ~FarFromOne(total) THEN w
    ELSE IF total = PyNum(0) THEN DEFAULT_WEIGHTS
    ELSE Weights(NumDiv(w.w_r, total), NumDiv(w.w_s, total),
                 NumDiv(w.w_f, total))

NormalizedWeights(w, total) ==
    IF ~FarFromOne(total) THEN w
    ELSE IF total = PyNum(0) THEN DEFAULT_WEIGHTS
    ELSE Weights(NumDiv(w.w_r, total), NumDiv(w.w_s, total), w.w_f)

ClampedWeights(w) == Weights(Clamp01(w.w_r), Clamp01(w.w_s), w.w_f)

\* w_r, w_s and w_f as rank_schemes holds them when it scores
EffectiveWeights(w) ==
    ClampedWeights(NormalizedWeights(w, NumAdd(w.w_r, w.w_s)))

\* the combination of the scores, without the clamp
FinalScore_unclamped(w, R, S, F) ==
    NumSub(NumAdd(NumMul(w.w_r, R), NumMul(w.w_s, S)), NumMul(w.w_f, F))

FinalScore(w, R, S, F) ==
    Clamp01(NumSub(NumAdd(NumMul(w.w_r, R), NumMul(w.w_s, S)),
                   NumMul(w.w_f, F)))

\* the texts a record holds as eligibility_structured
J_EMPTY_OBJECT == <<"{", "}">>

J_NULL == <<"n", "u", "l", "l">>

J_UNCLOSED == <<"{", "b", "a", "d">>

\* json.loads of those texts; Raised is JSONDecodeError
json_loads(text) ==
    IF text = J_EMPTY_OBJECT THEN Returned(PyDict(<<>>))
    ELSE IF text = J_NULL THEN Returned(None)
    ELSE Raised

\* the value rank_schemes evaluates: the parsed text, or the value itself
Parsed(eligibility) ==
    IF eligibility.t = "str" THEN json_loads(eligibility.s)
    ELSE Returned(eligibility)

KEY_ERROR == <<"e", "r", "r", "o", "r">>

S_INVALID_RULE_FORMAT ==
    <<"I", "n", "v", "a", "l", "i", "d", " ", "r", "u", "l", "e", " ",
      "f", "o", "r", "m", "a", "t">>

\* the text of the exception evaluate_scheme_rules raised
S_EXCEPTION_TEXT == <<"s", "t", "r", "(", "e", ")">>

\* R, the breakdown and the spec the result entry carries
RuleScore(R, breakdown, eligibility) ==
    [R |-> R, breakdown |-> breakdown, eligibility_structured |-> eligibility]

\* rule_result.get('R', ...) and rule_result.get('breakdown', {}), or the
\* values of the handler of an exception
EvaluatedScore(eligibility, rule_result) ==
    IF rule_result.raised
    THEN RuleScore(PyNum(0), PyDict(KEY_ERROR :> PyStr(S_EXCEPTION_TEXT)),
                   eligibility)
    ELSE RuleScore(rule_result.R, PyDict(<<>>), eligibility)

\* the try block around json.loads and evaluate_scheme_rules
ScoreRules(original, parsed, profile, mapping) ==
    IF parsed.raised
    THEN RuleScore(PyNum(0), PyDict(KEY_ERROR :> PyStr(S_INVALID_RULE_FORMAT)),
                   original)
    ELSE EvaluatedScore(parsed.value,
                        evaluate_scheme_rules(parsed.value, profile, mapping))

S_ELLIPSIS == <<".", ".", ".">>

DESCRIPTION_LENGTH == 200

\* description_raw[:200] + '...'
Description(text) ==
    IF Len(text) <= DESCRIPTION_LENGTH THEN text \o S_ELLIPSIS
    ELSE SubSeq(text, 1, DESCRIPTION_LENGTH) \o S_ELLIPSIS

\* the result entry of a candidate, final being the clamped score
ResultEntry(row, S, score, F, final) ==
    [scheme_id |-> row.scheme_id,
     scheme_name |-> row.scheme_name,
     R |-> Round(score.R, 4),
     S |-> Round(S, 4),
     F |-> Round(F, 4),
     final_score |-> Round(final, 4),
     percent_match |-> Round(NumMul(final, PyNum(100)), 1),
     rule_breakdown |-> score.breakdown,
     source_url |-> row.source_url,
     description |-> Description(row.description_raw.s),
     eligibility_structured |-> score.eligibility_structured]

\* the scoring of a record found: no entry when building it raises (the
\* description of the record is no text)
ScoredRow(row, S, score, F, w) ==
    IF row.description_raw.t # "str" THEN <<>>
    ELSE <<ResultEntry(row, S, score, F, FinalScore(w, score.R, S, F))>>

\* the first record of the dataset with the id
FirstWithId(rows, scheme_id) ==
    rows[CHOOSE i \in 1..Len(rows) :
             /\ rows[i].scheme_id = scheme_id
             /\ \A j \in 1..(i - 1) : rows[j].scheme_id # scheme_id]

ProcessRow(row, S, profile, mapping, now, w) ==
    ScoredRow(row, S,
              ScoreRules(row.eligibility_structured,
                         Parsed(row.eligibility_structured), profile, mapping),
              compute_freshness_penalty(row.last_updated, now), w)

\* one pass of the loop over the candidates: the entry of the candidate, or
\* nothing when it is skipped
ProcessCandidate(item, rows, profile, mapping, now, w) ==
    IF \A i \in 1..Len(rows) : rows[i].scheme_id # item.scheme_id THEN <<>>
    ELSE ProcessRow(FirstWithId(rows, item.scheme_id), item.similarity,
                    profile, mapping, now, w)

RECURSIVE ProcessAll(_, _, _, _, _, _)
\* the loop over the candidates, ended by the first candidate it cannot score
ProcessAll_stop_at_failure(items, rows, profile, mapping, now, w) ==
    IF items = <<>> THEN <<>>
    ELSE IF ProcessCandidate(Head(items), rows, profile, mapping, now, w) = <<>>
    THEN <<>>
    ELSE ProcessCandidate(Head(items), rows, profile, mapping, now, w)
         \o ProcessAll(Tail(items), rows, profile, mapping, now, w)

ProcessAll(items, rows, profile, mapping, now, w) ==
    IF items = <<>> THEN <<>>
    ELSE ProcessCandidate(Head(items), rows, profile, mapping, now, w)
         \o ProcessAll(Tail(items), rows, profile, mapping, now, w)

\* the place of an entry in a list sorted by final_score, highest first:
\* behind the entries that score at least as much
RECURSIVE InsertByScore(_, _)
InsertByScore(sorted, entry) ==
    IF sorted = <<>> THEN <<entry>>
    ELSE IF NumLess(Head(sorted).final_score, entry.final_score)
    THEN <<entry>> \o sorted
    ELSE <<Head(sorted)>> \o InsertByScore(Tail(sorted), entry)

\* results.sort(key=final_score, reverse=True): a stable sort
RECURSIVE SortByScore(_)
SortByScore(entries) ==
    IF entries = <<>> THEN <<>>
    ELSE InsertByScore(SortByScore(SubSeq(entries, 1, Len(entries) - 1)),
                       entries[Len(entries)])

\* results[:top_k]; a negative top_k counts from the end
Slice(entries, k) ==
    IF k >= 0 THEN SubSeq(entries, 1, IF k < Len(entries) THEN k ELSE Len(entries))
    ELSE SubSeq(entries, 1, Len(entries) + k)

\* a call that returns a list raised instead
RaisedList == [raised |-> TRUE, value |-> <<>>]

\* a DataFrame, as the list of its records
Frame(rows) == [t |-> "frame", rows |-> rows]

\* the empty DataFrame load_schemes_data caches when reading fails
EmptyFrame == Frame(<<>>)

\* load_schemes_data, reading the file again while the cache is empty
LoadedFrame_retry_when_empty(cache, file) ==
    IF cache # None /\ cache.rows # <<>> THEN cache
    ELSE IF file = Absent THEN Frame(<<>>)
    ELSE file

\* load_schemes_data: the cached frame, or the file read now
LoadedFrame(cache, file) ==
    IF cache # None THEN cache
    ELSE IF file = Absent THEN EmptyFrame
    ELSE file

\* what semantic_search gave rank_schemes: its list, or nothing when it raised
SearchResults(search) == IF search.raised THEN <<>> ELSE search.value

\* rank_schemes behind the validation of the weights
RankLoaded(frame, search, profile, mapping, now, w, k) ==
    IF frame.rows = <<>> THEN <<>>
    ELSE Slice(SortByScore(ProcessAll(SearchResults(search), frame.rows, profile,
                                      mapping, now, w)), k)

----------------------------------------------------------------------------
(* gender_utils *)

KEY_GENDER == <<"g", "e", "n", "d", "e", "r">>

W_FEMALE == <<"f", "e", "m", "a", "l", "e">>

W_WOMAN == <<"w", "o", "m", "a", "n">>

W_MALE == <<"m", "a", "l", "e">>

W_MAN == <<"m", "a", "n">>

\* the words FEMALE_KEYWORDS match: every pattern of the list matches only
\* where one of these stands as a whole word
FEMALE_WORDS ==
    { <<"m", "a", "h", "i", "l", "a">>,
      <<"m", "a", "h", "i", "l", "a", "s">>,
      <<"w", "o", "m", "e", "n">>,
      <<"l", "a", "d", "k", "i">>,
      <<"b", "e", "t", "i">>,
      <<"s", "a", "m", "r", "i", "d", "h", "i">> }

\* the words MALE_KEYWORDS match
MALE_WORDS ==
    { <<"s", "h", "e", "t", "k", "a", "r", "i">>, <<"m", "a", "l", "e">>, <<"m", "a", "n">> }

\* a character of the class \w
IsWordChar(c) ==
    \/ IsDigit(c)
    \/ c = "_"
    \/ IsUpper(c)
    \/ Ord(c) >= Ord("a") /\ Ord(c) <= Ord("z")

\* \bword\b matches in the text at position i
WordAt(text, word, i) ==
    /\ SubSeq(text, i, i + Len(word) - 1) = word
    /\ i = 1 \/ ~IsWordChar(text[i - 1])
    /\ i + Len(word) - 1 = Len(text) \/ ~IsWordChar(text[i + Len(word)])

\* re.search of the alternation of \bword\b over the words
HasWord(text, words) ==
    \E word \in words : \E i \in 1..(Len(text) - Len(word) + 1) :
        WordAt(text, word, i)

\* the gender a value of a gender clause names, None when it names none
GenderOfValue(v) ==
    IF Head(v) = "f" \/ IsSubstring(W_FEMALE, v) \/ IsSubstring(W_WOMAN, v)
    THEN PyStr(W_FEMALE)
    ELSE IF Head(v) = "m" \/ IsSubstring(W_MALE, v) \/ IsSubstring(W_MAN, v)
    THEN PyStr(W_MALE)
    ELSE None

\* the gender one required clause gives: None when the loop goes on to the
\* next clause, Raised when the clause is no dict or its field no text
ClauseGender(clause, field, val) ==
    IF ~Truthy(field) THEN Returned(None)
    ELSE IF field.t # "str" THEN Raised
    ELSE IF StrLower(field.s) # KEY_GENDER \/ ~Truthy(val) THEN Returned(None)
    ELSE IF StrStrip(ValueStr(val)) = <<>> THEN Returned(None)
    ELSE Returned(GenderOfValue(StrLower(StrStrip(ValueStr(val)))))

RECURSIVE FirstGender(_), NextGender(_, _)
FirstGender(clauses) ==
    IF clauses = <<>> THEN Returned(None)
    ELSE IF Head(clauses).t # "dict" THEN Raised
    ELSE NextGender(ClauseGender(Head(clauses),
                                 DictGet(Head(clauses).d, KEY_FIELD),
                                 DictGet(Head(clauses).d, KEY_VALUE)),
                    Tail(clauses))

NextGender(found, rest) ==
    IF found.raised \/ ~IsNone(found.value) THEN found ELSE FirstGender(rest)

\* the loop over eligibility_structured.get("required", []): a list is walked
\* clause by clause, a dict or a text yields keys or characters, which have
\* no get, and None or a number cannot be iterated
RequiredGender(required) ==
    IF required.t = "list" THEN FirstGender(required.items)
    ELSE IF required.t \in {"dict", "str"} /\ ~Truthy(required)
    THEN Returned(None)
    ELSE Raised

\* Raised is the AttributeError of a value without get
detect_gender_from_required_clauses(eligibility) ==
    IF ~Truthy(eligibility) THEN Returned(None)
    ELSE IF eligibility.t # "dict" THEN Raised
    ELSE RequiredGender(IF KEY_REQUIRED \in DOMAIN eligibility.d
                        THEN eligibility.d[KEY_REQUIRED] ELSE PyList(<<>>))

TitleGender(t) ==
    IF HasWord(t, FEMALE_WORDS) THEN PyStr(W_FEMALE)
    ELSE IF HasWord(t, MALE_WORDS) THEN PyStr(W_MALE)
    ELSE None

\* the gender of detect_gender_from_title, for a title that is a text or None
detect_gender_from_title(title) ==
    IF ~Truthy(title) THEN None ELSE TitleGender(StrLower(title.s))

\* gender, confidence and provenance of a scheme
GenderFinding(g, confidence, provenance) ==
    [gender |-> g, confidence |-> confidence, provenance |-> provenance]

\* the heuristics, with the raw text asked before the title
HeuristicGender_raw_first(from_title, from_raw) ==
    IF ~IsNone(from_raw)
    THEN GenderFinding(from_raw, PyFrac(80, 100), "raw_text_heuristic")
    ELSE IF ~IsNone(from_title)
    THEN GenderFinding(from_title,
                       IF from_title = PyStr(W_FEMALE) THEN PyFrac(85, 100)
                       ELSE PyFrac(80, 100),
                       "title_heuristic")
    ELSE GenderFinding(None, PyNum(0), "none")

\* extract_scheme_gender behind the required clauses
HeuristicGender(from_title, from_raw) ==
    IF ~IsNone(from_title)
    THEN GenderFinding(from_title,
                       IF from_title = PyStr(W_FEMALE) THEN PyFrac(85, 100)
                       ELSE PyFrac(80, 100),
                       "title_heuristic")
    ELSE IF ~IsNone(from_raw)
    THEN GenderFinding(from_raw, PyFrac(80, 100), "raw_text_heuristic")
    ELSE GenderFinding(None, PyNum(0), "none")

FoundGender(from_clauses, scheme_name, raw) ==
    IF from_clauses.raised THEN Raised
    ELSE IF ~IsNone(from_clauses.value)
    THEN Returned(GenderFinding(from_clauses.value, PyFrac(95, 100),
                                "required_clause"))
    ELSE Returned(HeuristicGender(detect_gender_from_title(scheme_name),
                                  detect_gender_from_title(raw)))

\* extract_scheme_gender of the record split_by_gender_buckets builds from a
\* result entry
extract_scheme_gender(scheme_name, eligibility, raw) ==
    FoundGender(detect_gender_from_required_clauses(eligibility), scheme_name,
                raw)

\* the finding of each entry of a ranked list
Findings(ranked_schemes) ==
    [i \in 1..Len(ranked_schemes) |->
        extract_scheme_gender(ranked_schemes[i].scheme_name,
                              ranked_schemes[i].eligibility_structured,
                              PyStr(ranked_schemes[i].description))]

\* the entries whose finding names the gender (None: names none)
EntriesOf(ranked_schemes, findings, g) ==
    LET Keep(i) == findings[i].value.gender = g
        RECURSIVE Pick(_)
        Pick(i) == IF i > Len(ranked_schemes) THEN <<>>
                   ELSE (IF Keep(i) THEN <<ranked_schemes[i]>> ELSE <<>>)
                        \o Pick(i + 1)
    IN  Pick(1)

\* the buckets, the unrestricted entries in the neutral one only
Buckets_restricted_only(male_bucket, female_bucket, neutral) ==
    [male |-> male_bucket, female |-> female_bucket, neutral |-> neutral]

Buckets(male_bucket, female_bucket, neutral) ==
    [male |-> male_bucket \o neutral, female |-> female_bucket \o neutral,
     neutral |-> neutral]

\* the buckets from the findings; Raised when extract_scheme_gender raised
BucketsOf(ranked_schemes, findings) ==
    IF \E i \in 1..Len(findings) : findings[i].raised THEN Raised
    ELSE Returned(Buckets(EntriesOf(ranked_schemes, findings, PyStr(W_MALE)),
                          EntriesOf(ranked_schemes, findings, PyStr(W_FEMALE)),
                          EntriesOf(ranked_schemes, findings, None)))

split_by_gender_buckets(ranked_schemes) ==
    BucketsOf(ranked_schemes, Findings(ranked_schemes))

\* the female bucket for every gender but male
Selected_female_by_default(buckets, g) ==
    IF buckets.raised THEN RaisedList
    ELSE IF g = W_MALE THEN Returned(buckets.value.male)
    ELSE Returned(buckets.value.female)

\* buckets.get(gender) for male and female, the neutral bucket otherwise
Selected(buckets, g) ==
    IF buckets.raised THEN RaisedList
    ELSE IF g = W_MALE THEN Returned(buckets.value.male)
    ELSE IF g = W_FEMALE THEN Returned(buckets.value.female)
    ELSE Returned(buckets.value.neutral)

\* (text or "").strip().lower() of a gender that is a text or None
GenderKey(g) == IF Truthy(g) THEN StrLower(StrStrip(g.s)) ELSE <<>>

----------------------------------------------------------------------------
(* The inputs of a ranking call *)

\* the longest list semantic_search returns
MaxCandidates == 2

ID_1 == <<"s", "1">>

ID_2 == <<"s", "2">>

ID_3 == <<"s", "3">>

ID_4 == <<"s", "4">>

ID_5 == <<"s", "5">>

\* an id the index holds and the dataset does not
ID_GONE == <<"s", "9">>

N_KISAN == <<"K", "i", "s", "a", "n", " ", "C", "r", "e", "d", "i", "t", " ", "C", "a", "r", "d">>

N_MAHILA == <<"M", "a", "h", "i", "l", "a", " ", "S", "a", "m", "r", "i", "d", "h", "i", " ", "Y", "o", "j", "a", "n", "a">>

N_SCHOLARSHIP == <<"M", "e", "r", "i", "t", " ", "S", "c", "h", "o", "l", "a", "r", "s", "h", "i", "p">>

N_SHETKARI == <<"S", "h", "e", "t", "k", "a", "r", "i", " ", "Y", "o", "j", "a", "n", "a">>

N_PENSION == <<"O", "l", "d", " ", "A", "g", "e", " ", "P", "e", "n", "s", "i", "o", "n">>

T_LOANS == <<"L", "o", "a", "n", "s", " ", "f", "o", "r", " ", "f", "a", "r", "m", "e", "r", "s">>

T_WOMEN == <<"S", "u", "p", "p", "o", "r", "t", " ", "f", "o", "r", " ", "w", "o", "m", "e", "n", "'", "s", " ", "g", "r", "o", "u", "p", "s">>

T_STUDENTS == <<"F", "o", "r", " ", "s", "t", "u", "d", "e", "n", "t", "s">>

S_FEMALE_CAPITAL == <<"F", "e", "m", "a", "l", "e">>

S_MALE_PADDED == <<"M", "a", "l", "e", " ">>

S_NON_BINARY == <<"n", "o", "n", "-", "b", "i", "n", "a", "r", "y">>

Row(id, name, eligibility, updated, description) ==
    [scheme_id |-> id, scheme_name |-> name,
     eligibility_structured |-> eligibility, last_updated |-> updated,
     description_raw |-> description, source_url |-> PyStr(<<>>)]

\* required: state is Karnataka; optional: age at least 18
KarnatakaAdults ==
    PyDict(KEY_REQUIRED :>
               PyList(<<Clause(PyStr(F_STATE), PyStr(OP_EQ),
                               PyStr(S_KARNATAKA), Absent)>>)
           @@ KEY_OPTIONAL :>
               PyList(<<Clause(PyStr(F_AGE), PyStr(OP_GE), PyNum(18), Absent)>>))

\* required: gender is female, age at least 60
ElderlyWomen ==
    PyDict(KEY_REQUIRED :>
               PyList(<<Clause(PyStr(KEY_GENDER), PyStr(OP_EQ),
                               PyStr(S_FEMALE_CAPITAL), Absent),
                        Clause(PyStr(F_AGE), PyStr(OP_GE), PyNum(60), Absent)>>))

KisanRow ==
    Row(ID_1, PyStr(N_KISAN), KarnatakaAdults, PyStr(D_2024_06_15),
        PyStr(T_LOANS))

\* eligibility_structured is the text of an empty JSON object
MahilaRow ==
    Row(ID_2, PyStr(N_MAHILA), PyStr(J_EMPTY_OBJECT), None, PyStr(T_WOMEN))

\* eligibility_structured is a text json.loads rejects
ScholarshipRow ==
    Row(ID_3, PyStr(N_SCHOLARSHIP), PyStr(J_UNCLOSED), PyStr(D_2023_06_15),
        PyStr(T_STUDENTS))

\* description_raw is missing
ShetkariRow ==
    Row(ID_4, PyStr(N_SHETKARI), None, PyStr(D_2024_06_14), None)

PensionRow ==
    Row(ID_5, PyStr(N_PENSION), ElderlyWomen, PyStr(D_2024_06_14),
        PyStr(<<>>))

\* a second record with the id of KisanRow
KisanCopyRow ==
    Row(ID_1, PyStr(N_PENSION), None, None, PyStr(<<>>))

FullDataset ==
    <<KisanRow, MahilaRow, ScholarshipRow, ShetkariRow, PensionRow,
      KisanCopyRow>>

\* a second record with the id of ShetkariRow, with a description
ShetkariLoansRow ==
    Row(ID_4, PyStr(N_SHETKARI), None, PyStr(D_2024_06_14), PyStr(T_LOANS))

SmallDataset == <<MahilaRow, KisanRow, PensionRow, ShetkariLoansRow>>

\* the file: unreadable, without records, or one of the two datasets
SchemesFiles == {Absent, Frame(<<>>), Frame(SmallDataset), Frame(FullDataset)}

\* the cache before the call: nothing loaded yet, a load that failed, or the
\* file as an earlier call loaded it
Caches(file) == {None, EmptyFrame} \cup (IF file = Absent THEN {} ELSE {file})

Candidate(id, similarity) == [scheme_id |-> id, similarity |-> similarity]

SearchItems ==
    { Candidate(ID_1, PyNum(1)), Candidate(ID_1, PyFrac(9, 10)),
      Candidate(ID_2, PyFrac(1, 2)), Candidate(ID_2, PyFrac(0 - 1, 5)),
      Candidate(ID_3, PyFrac(87654, 100000)), Candidate(ID_4, PyFrac(95, 100)),
      Candidate(ID_5, PyFrac(6, 5)), Candidate(ID_GONE, PyFrac(99, 100)) }

\* the lists of at most n candidates of distinct ids, the most similar first
CandidateLists(n) ==
    {l \in SeqsUpTo(SearchItems, n) :
        \A i, j \in 1..Len(l) :
            i < j => /\ l[i].scheme_id # l[j].scheme_id
                     /\ NumLess(l[j].similarity, l[i].similarity)}

\* semantic_search returns a list or raises (the index cannot be loaded)
Searches(n) == {RaisedList} \cup {Returned(l) : l \in CandidateLists(n)}

FewSearches ==
    { RaisedList,
      Returned(<<Candidate(ID_1, PyNum(1)), Candidate(ID_3, PyFrac(87654, 100000))>>),
      Returned(<<Candidate(ID_5, PyFrac(6, 5)), Candidate(ID_2, PyFrac(0 - 1, 5))>>) }

ValidWeightSets ==
    { Weights(PyFrac(6, 10), PyFrac(4, 10), PyFrac(1, 10)),
      Weights(PyFrac(6, 10), PyFrac(3, 10), PyFrac(1, 10)),
      Weights(PyNum(0), PyNum(0), PyNum(0)),
      Weights(PyNum(0), PyNum(0), PyNum(1)),
      Weights(PyNum(1), PyNum(1), PyNum(1)),
      Weights(PyFrac(1, 2), PyFrac(1, 4), PyNum(0)),
      Weights(PyNum(0), PyFrac(1, 3), PyNum(1)),
      Weights(PyNum(1), PyNum(0), PyFrac(1, 10)) }

InvalidWeightSets ==
    { Weights(PyFrac(0 - 1, 10), PyFrac(4, 10), PyFrac(1, 10)),
      Weights(PyFrac(6, 10), PyFrac(3, 2), PyFrac(1, 10)),
      Weights(PyFrac(6, 10), PyFrac(4, 10), PyFrac(0 - 1, 10)),
      Weights(PyFrac(6, 10), PyFrac(4, 10), PyNum(2)),
      Weights(PyFrac(11, 10), PyNum(0), PyNum(0)) }

\* w_r + w_s is 1 + 5e-10
NearlyOneWeights == Weights(PyNum(1), PyFrac(1, 2000000000), PyNum(0))

API_WEIGHTS == Weights(PyFrac(6, 10), PyFrac(4, 10), PyFrac(1, 10))

TopKs == {0 - 1, 0, 1, 2, 3}

\* profile.model_dump(): every attribute, None for the ones not set
ProfileDump(state, age, gender, income) ==
    PyDict(F_STATE :> state @@ F_AGE :> age @@ KEY_GENDER :> gender
           @@ KEY_INCOME_ANNUAL :> income)

KarnatakaWoman ==
    ProfileDump(PyStr(S_KARNATAKA), PyNum(45), PyStr(W_FEMALE), PyNum(120000))

GoaBoy == ProfileDump(PyStr(S_GOA), PyNum(17), PyStr(S_MALE_PADDED), None)

UnsetProfile == ProfileDump(None, None, None, None)

RankProfiles == {KarnatakaWoman, GoaBoy, UnsetProfile}

\* the argument gender_bucket of rank_schemes_for_api
GenderBuckets ==
    {None, PyStr(S_FEMALE_CAPITAL), PyStr(W_MALE), PyStr(S_NON_BINARY)}

----------------------------------------------------------------------------
(* The state machine: one ranking call *)

\* every weight set with a few searches; every search with the weights of
\* the API and every top_k; the weights that sum to nearly 1
RankInit ==
    /\ \/ /\ weights \in ValidWeightSets \cup InvalidWeightSets
          /\ semantic_search \in FewSearches
          /\ top_k = 2
          /\ schemes_file \in SchemesFiles
          /\ _schemes_df \in Caches(schemes_file)
          /\ user_profile \in RankProfiles
          /\ mapping_file \in MappingFiles
       \/ /\ weights \in {API_WEIGHTS, Weights(PyNum(0), PyNum(0), PyNum(1))}
          /\ semantic_search \in Searches(MaxCandidates)
          /\ top_k \in TopKs
          /\ schemes_file \in {Frame(SmallDataset), Frame(FullDataset)}
          /\ _schemes_df = None
          /\ user_profile = KarnatakaWoman
          /\ mapping_file = Absent
       \/ /\ weights = NearlyOneWeights
          /\ semantic_search = Returned(<<Candidate(ID_1, PyNum(1))>>)
          /\ top_k = 2
          /\ schemes_file = Frame(FullDataset)
          /\ _schemes_df = None
          /\ user_profile = KarnatakaWoman
          /\ mapping_file = Absent
    /\ today = Date(2025, 6, 15)
    /\ effective_weights = None
    /\ ranked = None
    /\ call = None
    /\ NoServer
    /\ eligibility_structured = None
    /\ result = None
    /\ single_rule = None
    /\ mapped_field = None
    /\ last_updated = None
    /\ penalty = None
    /\ pc = "request"

\* a call of rank_schemes: the list returned or Raised (ValueError), the
\* weights it scored with and the cache it leaves
RankOutcome(returned, effective, cache) ==
    [ranked |-> returned, effective_weights |-> effective, cache |-> cache]

\* the validation of the weights, made after the dataset is loaded
Ranking_load_first(cache, file, search, profile, mapping, now, w, k) ==
    IF ~ValidWeights(w)
    THEN RankOutcome(RaisedList, None, LoadedFrame(cache, file))
    ELSE RankOutcome(Returned(RankLoaded(LoadedFrame(cache, file), search,
                                         profile, mapping, now,
                                         EffectiveWeights(w), k)),
                     EffectiveWeights(w), LoadedFrame(cache, file))

Ranking(cache, file, search, profile, mapping, now, w, k) ==
    IF ~ValidWeights(w) THEN RankOutcome(RaisedList, None, cache)
    ELSE RankOutcome(Returned(RankLoaded(LoadedFrame(cache, file), search,
                                         profile, mapping, now,
                                         EffectiveWeights(w), k)),
                     EffectiveWeights(w), LoadedFrame(cache, file))

\* the buckets of the list rank_schemes returned and the one chosen for the
\* gender; Raised when rank_schemes or split_by_gender_buckets raised
ChosenBucket(outcome, g) ==
    IF outcome.ranked.raised THEN outcome
    ELSE [outcome EXCEPT
             !.ranked = Selected(split_by_gender_buckets(outcome.ranked.value), g)]

\* the end of a call: what it returned and what it left behind
Finish(outcome, fn, bucket) ==
    /\ ranked' = outcome.ranked
    /\ effective_weights' = outcome.effective_weights
    /\ _schemes_df' = outcome.cache
    /\ call' = [fn |-> fn, gender_bucket |-> bucket]
    /\ pc' = "returned"
    /\ UNCHANGED <<eligibility_structured, user_profile, mapping_file, result,
                   engine_vars, freshness_vars, today, request_vars,
                   load_vars, gender_vars>>

RankSchemes ==
    /\ pc = "request"
    /\ Finish(Ranking(_schemes_df, schemes_file, semantic_search, user_profile,
                      mapping_file, today, weights, top_k),
              "rank_schemes", None)

\* rank_schemes_for_profile without schemes_path and faiss_path
RankSchemesForProfile ==
    /\ pc = "request"
    /\ Finish(ChosenBucket(Ranking(_schemes_df, schemes_file, semantic_search,
                                   user_profile, mapping_file, today, weights,
                                   top_k),
                           GenderKey(user_profile.d[KEY_GENDER])),
              "rank_schemes_for_profile", None)

\* rank_schemes_for_api: rank_schemes with its default weights
RankSchemesForApi ==
    /\ pc = "request"
    /\ \E gender_bucket \in GenderBuckets :
           Finish(ChosenBucket(Ranking(_schemes_df, schemes_file,
                                       semantic_search, user_profile,
                                       mapping_file, today, API_WEIGHTS, top_k),
                               GenderKey(IF Truthy(gender_bucket)
                                         THEN gender_bucket
                                         ELSE user_profile.d[KEY_GENDER])),
                  "rank_schemes_for_api", gender_bucket)

RankNext == RankSchemes \/ RankSchemesForProfile \/ RankSchemesForApi

RankSpec == RankInit /\ [][RankNext]_vars

----------------------------------------------------------------------------
(* Properties of a ranking call *)

Returning == pc = "returned" /\ ~ranked.raised

\* a weight of the call is negative or greater than 1
AnyWeightOutOfRange ==
    \E x \in {weights.w_r, weights.w_s, weights.w_f} : x.n < 0 \/ x.n > x.d

\* the similarity semantic_search gave for the scheme of a result entry
SimilarityOf(entry) ==
    (CHOOSE item \in {semantic_search.value[i] :
                         i \in 1..Len(semantic_search.value)} :
         item.scheme_id = entry.scheme_id).similarity

\* w_r*R + w_s*S - w_f*F clamped to [0, 1], from the weights rank_schemes
\* scored with, the similarity of the search, and R and F as the entry
\* reports them (no record of the model has an R or F of more than four
\* decimals)
ClampedScore(entry) ==
    LET x == NumSub(NumAdd(NumMul(effective_weights.w_r, entry.R),
                           NumMul(effective_weights.w_s, SimilarityOf(entry))),
                    NumMul(effective_weights.w_f, entry.F))
    IN  IF x.n < 0 THEN PyNum(0) ELSE IF x.n > x.d THEN PyNum(1) ELSE x

ScoresInRange(entry) ==
    /\ entry.final_score.n >= 0 /\ entry.final_score.n <= entry.final_score.d
    /\ entry.percent_match.n >= 0
    /\ entry.percent_match.n <= 100 * entry.percent_match.d

ExampleScores ==
    /\ FinalScore(Weights(PyFrac(6, 10), PyFrac(4, 10), PyFrac(1, 10)),
                  PyNum(1), PyNum(1), PyNum(0)) = PyNum(1)
    /\ FinalScore(Weights(PyFrac(6, 10), PyFrac(3, 10), PyFrac(1, 10)),
                  PyNum(0), PyNum(0), PyNum(1)) = PyNum(0)

\* C13 as stated: every returned candidate has final_score equal to
\* clamp(w_r*R + w_s*S - w_f*F, 0, 1) with the effective weights, final_score
\* in [0, 1] and percent_match in [0, 100]; R=1, S=1, F=0 with weights
\* 0.6/0.4/0.1 gives 1.0 and R=0, S=0, F=1 with 0.6/0.3/0.1 gives 0.0.
C13_FinalScoreIsClampedSum ==
    /\ ExampleScores
    /\ Returning =>
           \A i \in 1..Len(ranked.value) :
               /\ ranked.value[i].final_score = ClampedScore(ranked.value[i])
               /\ ScoresInRange(ranked.value[i])

\* C13, amended: the final_score of every returned candidate is
\* clamp(w_r*R + w_s*S - w_f*F, 0, 1) rounded to four decimals and its
\* percent_match is a hundred times the clamped sum rounded to one decimal;
\* both are in range, and the two examples give 1.0 (100.0) and 0.0.
C13_FinalScoreIsRoundedClampedSum ==
    /\ ExampleScores
    /\ Returning =>
           \A i \in 1..Len(ranked.value) :
               /\ ranked.value[i].final_score =
                      Round(ClampedScore(ranked.value[i]), 4)
               /\ ranked.value[i].percent_match =
                      Round(NumMul(ClampedScore(ranked.value[i]), PyNum(100)), 1)
               /\ ScoresInRange(ranked.value[i])

\* a candidate with R=1, S=1, F=0 scored 1.0 under the weights 0.6/0.4/0.1,
\* next to one whose clamped sum has more than four decimals
C13_Witness ==
    /\ Returning
    /\ call.fn = "rank_schemes"
    /\ weights = Weights(PyFrac(6, 10), PyFrac(4, 10), PyFrac(1, 10))
    /\ \E i \in 1..Len(ranked.value) :
           /\ ranked.value[i].R = PyNum(1)
           /\ ranked.value[i].S = PyNum(1)
           /\ ranked.value[i].F = PyNum(0)
           /\ ranked.value[i].final_score = PyNum(1)
           /\ ranked.value[i].percent_match = PyNum(100)
    /\ \E i \in 1..Len(ranked.value) :
           ranked.value[i].final_score # ClampedScore(ranked.value[i])

\* C14: a call of rank_schemes with a weight that is negative or greater
\* than 1 raises, and it leaves the cache of the dataset as it was: nothing
\* is loaded, searched or scored.
C14_InvalidWeightsRejectedFirst ==
    [][(pc = "request" /\ AnyWeightOutOfRange
        /\ call'.fn \in {"rank_schemes", "rank_schemes_for_profile"})
       => (ranked' = RaisedList /\ _schemes_df' = _schemes_df
           /\ effective_weights' = None)]_vars

\* a call with w_s = 1.5 was rejected while the file could be read and
\* nothing had been loaded: the cache is still empty
C14_Witness ==
    /\ pc = "returned"
    /\ call.fn = "rank_schemes"
    /\ weights.w_s = PyFrac(3, 2)
    /\ ranked.raised
    /\ schemes_file = Frame(FullDataset)
    /\ _schemes_df = None

\* the call scored with the weights it was given
UsesGivenWeights ==
    /\ pc = "returned"
    /\ call.fn \in {"rank_schemes", "rank_schemes_for_profile"}
    /\ ~AnyWeightOutOfRange

SumOfRuleAndSemantic(w) == NumAdd(w.w_r, w.w_s)

SameRatio(a, b) == NumMul(a.w_r, b.w_s) = NumMul(a.w_s, b.w_r)

\* |x - 1| <= 1e-9
WithinEpsilonOfOne(x) ==
    x.n = x.d \/ x.d \div Abs(x.n - x.d) >= EPSILON_INVERSE

\* C15 as stated: for valid weights with w_r + w_s > 0 the effective weights
\* have w_r' + w_s' = 1, w_r' : w_s' = w_r : w_s and w_f unchanged; for
\* w_r + w_s = 0 they are 0.6, 0.3, 0.1.
C15_EffectiveWeightsSumToOne ==
    UsesGivenWeights =>
        IF SumOfRuleAndSemantic(weights) = PyNum(0)
        THEN effective_weights = DEFAULT_WEIGHTS
        ELSE /\ SumOfRuleAndSemantic(effective_weights) = PyNum(1)
             /\ SameRatio(effective_weights, weights)
             /\ effective_weights.w_f = weights.w_f

\* C15, amended: for valid weights with w_r + w_s > 0 the effective weights
\* have w_r' : w_s' = w_r : w_s and w_f unchanged, and w_r' + w_s' is 1 when
\* w_r + w_s differs from 1 by more than 1e-9 and is w_r + w_s itself (within
\* 1e-9 of 1) otherwise; for w_r + w_s = 0 they are 0.6, 0.3, 0.1.
C15_EffectiveWeightsSumToOneWithinEpsilon ==
    UsesGivenWeights =>
        IF SumOfRuleAndSemantic(weights) = PyNum(0)
        THEN effective_weights = DEFAULT_WEIGHTS
        ELSE /\ IF WithinEpsilonOfOne(SumOfRuleAndSemantic(weights))
                THEN effective_weights = weights
                ELSE SumOfRuleAndSemantic(effective_weights) = PyNum(1)
             /\ WithinEpsilonOfOne(SumOfRuleAndSemantic(effective_weights))
             /\ SameRatio(effective_weights, weights)
             /\ effective_weights.w_f = weights.w_f

\* the weights 0.5/0.25/0 were rescaled to 2/3 and 1/3
C15_Witness ==
    /\ UsesGivenWeights
    /\ weights = Weights(PyFrac(1, 2), PyFrac(1, 4), PyNum(0))
    /\ effective_weights = Weights(PyFrac(2, 3), PyFrac(1, 3), PyNum(0))
    /\ ~ranked.raised /\ ranked.value # <<>>

\* rank_schemes itself returned a list
RankSchemesReturned == Returning /\ call.fn = "rank_schemes"

\* the entries of the candidates rank_schemes scored, in the order of the
\* search
ScoredCandidates ==
    ProcessAll(SearchResults(semantic_search), _schemes_df.rows, user_profile,
               mapping_file, today, effective_weights)

\* the place of the scheme of an entry in the list of the search
SearchPosition(entry) ==
    CHOOSE i \in 1..Len(semantic_search.value) :
        semantic_search.value[i].scheme_id = entry.scheme_id

IsEntryOf(entry, entries) == \E i \in 1..Len(entries) : entries[i] = entry

\* returned is scored, highest final_score first and ties in the order of
\* the search, cut to at most limit entries
OrderedAndCut(returned, scored, limit) ==
    /\ Len(returned) <= limit
    /\ Len(returned) = Len(scored) \/ Len(returned) = limit
    /\ \A i \in 1..Len(returned) : IsEntryOf(returned[i], scored)
    /\ \A i, j \in 1..Len(returned) :
           i < j =>
               /\ ~NumLess(returned[i].final_score, returned[j].final_score)
               /\ returned[i].final_score = returned[j].final_score =>
                      SearchPosition(returned[i]) < SearchPosition(returned[j])
    /\ \A i \in 1..Len(scored) :
           ~IsEntryOf(scored[i], returned) =>
               \A j \in 1..Len(returned) :
                   ~NumLess(returned[j].final_score, scored[i].final_score)

\* C17: rank_schemes returns the scored candidates ordered by final_score
\* descending, candidates of equal final_score in the order of the search,
\* cut to the first top_k: never more than top_k entries, and no scored
\* candidate left out scores higher than a returned one.
C17_SortedStableAndCutToTopK ==
    RankSchemesReturned => OrderedAndCut(ranked.value, ScoredCandidates, top_k)

\* a candidate of the search rank_schemes cannot score: its id is not in the
\* dataset, or building its entry raises
IsBadCandidate(item, rows) ==
    \/ \A i \in 1..Len(rows) : rows[i].scheme_id # item.scheme_id
    \/ FirstWithId(rows, item.scheme_id).description_raw.t # "str"

RECURSIVE GoodCandidates(_, _)
GoodCandidates(items, rows) ==
    IF items = <<>> THEN <<>>
    ELSE (IF IsBadCandidate(Head(items), rows) THEN <<>> ELSE <<Head(items)>>)
         \o GoodCandidates(Tail(items), rows)

HasBadCandidate ==
    /\ ~semantic_search.raised
    /\ \E i \in 1..Len(semantic_search.value) :
           IsBadCandidate(semantic_search.value[i], _schemes_df.rows)

\* C18: rank_schemes with valid weights does not raise over a candidate
\* whose id is not in the dataset or whose processing fails; it returns what
\* it returns for the search without the bad candidates, and with top_k at
\* least the length of the search every other candidate has its entry.
C18_BadCandidateIsSkipped ==
    (pc = "returned" /\ call.fn = "rank_schemes" /\ ~AnyWeightOutOfRange
     /\ _schemes_df.rows # <<>>) =>
        /\ ~ranked.raised
        /\ ranked.value =
               RankLoaded(_schemes_df,
                          Returned(GoodCandidates(SearchResults(semantic_search),
                                                  _schemes_df.rows)),
                          user_profile, mapping_file, today, effective_weights,
                          top_k)
        /\ top_k >= Len(SearchResults(semantic_search)) =>
               \A i \in 1..Len(SearchResults(semantic_search)) :
                   IsBadCandidate(semantic_search.value[i], _schemes_df.rows)
                   \/ \E j \in 1..Len(ranked.value) :
                          ranked.value[j].scheme_id =
                              semantic_search.value[i].scheme_id

\* the search put an id the dataset does not hold before s1, and s1 was
\* scored and returned alone
C18_Witness ==
    /\ RankSchemesReturned
    /\ HasBadCandidate
    /\ Len(semantic_search.value) = 2
    /\ semantic_search.value[1].scheme_id = ID_GONE
    /\ Len(ranked.value) = 1
    /\ ranked.value[1].scheme_id = ID_1
    /\ ranked.value[1].S = PyFrac(9, 10)

\* the call was made with weights rank_schemes accepts
WeightsAccepted == call.fn = "rank_schemes_for_api" \/ ~AnyWeightOutOfRange

\* the record of a candidate holds a text json.loads rejects
HasUnparsableSpec(scheme_id, rows) ==
    /\ \E i \in 1..Len(rows) : rows[i].scheme_id = scheme_id
    /\ FirstWithId(rows, scheme_id).eligibility_structured.t = "str"
    /\ json_loads(FirstWithId(rows, scheme_id).eligibility_structured.s).raised

\* C19: a ranking request over a candidate whose eligibility_structured is
\* unparsable JSON completes without raising, in rank_schemes as in
\* rank_schemes_for_profile and rank_schemes_for_api, and the candidate is
\* scored with R = 0.0.
C19_UnparsableSpecNeverRaises ==
    (pc = "returned" /\ WeightsAccepted /\ ~semantic_search.raised
     /\ \E i \in 1..Len(semantic_search.value) :
            HasUnparsableSpec(semantic_search.value[i].scheme_id,
                              _schemes_df.rows)) =>
        /\ ~ranked.raised
        /\ \A i \in 1..Len(ranked.value) :
               HasUnparsableSpec(ranked.value[i].scheme_id, _schemes_df.rows)
                   => ranked.value[i].R = PyNum(0)

\* the dataset cannot be read now, or the search raises because the index
\* cannot be loaded
LoadFails ==
    \/ _schemes_df = None /\ schemes_file = Absent
    \/ semantic_search.raised

\* C20: a ranking request made with accepted weights while the dataset or
\* the index cannot be loaded ends in an explicit failure, never in a list.
C20_LoadFailureIsExplicit ==
    [][(pc = "request" /\ LoadFails
        /\ (call'.fn = "rank_schemes_for_api" \/ ~AnyWeightOutOfRange))
       => ranked'.raised]_vars

----------------------------------------------------------------------------
(* The server: the startup prefetch thread and the request threads *)

\* the number of requests served at the same time
MaxRequests == 1

\* the thread of _prefetch_resources
PREFETCH == 0

Threads == {PREFETCH} \cup 1..MaxRequests

\* an object a load made, by the number of the load that made it
Object(n) == [t |-> "object", read |-> n]

NoResources == [schemes_df |-> None, faiss_index |-> None, embed_model |-> None]

\* the variables no thread of the server touches
call_vars ==
    <<eligibility_structured, user_profile, mapping_file, result, pc,
      engine_vars, freshness_vars, today, request_vars, effective_weights,
      ranked, call, gender_vars>>

\* the module globals at import and STATE = AppState(); every thread is about
\* to call STATE.load, and the files can be read
LoadInit ==
    /\ thread_pc = [self \in Threads |-> [fn |-> "load", at |-> "if self._ready"]]
    /\ AppState = [_ready |-> FALSE, index |-> None, schemes |-> None,
                   model |-> None]
    /\ _index = None
    /\ _scheme_ids = None
    /\ _model = None
    /\ _schemes_df = None
    /\ resources = [self \in Threads |-> NoResources]
    /\ reads = [load |-> 0, dataset |-> 0, index |-> 0, model |-> 0]
    /\ schemes_file = Frame(SmallDataset)
    /\ eligibility_structured = None
    /\ user_profile = None
    /\ mapping_file = Absent
    /\ result = None
    /\ pc = "serving"
    /\ single_rule = None
    /\ mapped_field = None
    /\ last_updated = None
    /\ today = None
    /\ penalty = None
    /\ semantic_search = None
    /\ weights = None
    /\ top_k = 0
    /\ effective_weights = None
    /\ ranked = None
    /\ call = None
    /\ scheme_record = None
    /\ ranked_list = None

At(self, fn, label) == thread_pc[self] = [fn |-> fn, at |-> label]

Goto(self, fn, label) ==
    thread_pc' = [thread_pc EXCEPT ![self] = [fn |-> fn, at |-> label]]

\* the function _get_index or _get_model was called from
Callers == {"load", "semantic_search"}

\* STATE.load: the test of _ready; the prefetch thread ends behind load, a
\* request goes on to rank_schemes_for_api
Load(self) ==
    /\ At(self, "load", "if self._ready")
    /\ IF ~AppState._ready
       THEN /\ Goto(self, "load", "set_schemes_path")
            /\ reads' = [reads EXCEPT !.load = @ + 1]
       ELSE /\ IF self = PREFETCH THEN Goto(self, "done", "return")
               ELSE Goto(self, "rank_schemes", "load_schemes_data")
            /\ UNCHANGED reads
    /\ UNCHANGED <<call_vars, _schemes_df, AppState, _index, _scheme_ids,
                   _model, resources>>

\* load_resources_for_api: set_schemes_path(schemes_path)
SetSchemesPath(self) ==
    /\ At(self, "load", "set_schemes_path")
    /\ _schemes_df' = None
    /\ Goto(self, "load", "pd.read_parquet")
    /\ UNCHANGED <<call_vars, AppState, _index, _scheme_ids, _model, resources,
                   reads>>

\* load_resources_for_api: schemes_df = pd.read_parquet(schemes_path)
ReadParquet(self) ==
    /\ At(self, "load", "pd.read_parquet")
    /\ resources' = [resources EXCEPT ![self].schemes_df = schemes_file]
    /\ Goto(self, "load", "set_index_paths")
    /\ UNCHANGED <<call_vars, _schemes_df, AppState, _index, _scheme_ids,
                   _model, reads>>

\* load_resources_for_api: set_index_paths(index_path, ids_path)
SetIndexPaths(self) ==
    /\ At(self, "load", "set_index_paths")
    /\ _index' = None
    /\ _scheme_ids' = None
    /\ Goto(self, "load", "_get_index")
    /\ UNCHANGED <<call_vars, _schemes_df, AppState, _model, resources, reads>>

\* _get_index: if _index is None or _scheme_ids is None
GetIndex(self) ==
    \E fn \in Callers :
        /\ At(self, fn, "_get_index")
        /\ IF _index = None \/ _scheme_ids = None
           THEN Goto(self, fn, "faiss.read_index")
           ELSE Goto(self, fn, "return _index")
        /\ UNCHANGED <<call_vars, _schemes_df, AppState, _index, _scheme_ids,
                       _model, resources, reads>>

\* _get_index: _index = faiss.read_index(str(index_path))
ReadIndex(self) ==
    \E fn \in Callers :
        /\ At(self, fn, "faiss.read_index")
        /\ _index' = Object(reads.index + 1)
        /\ reads' = [reads EXCEPT !.index = @ + 1]
        /\ Goto(self, fn, "np.load")
        /\ UNCHANGED <<call_vars, _schemes_df, AppState, _scheme_ids, _model,
                       resources>>

\* _get_index: _scheme_ids = np.load(ids_path, allow_pickle=False)
LoadSchemeIds(self) ==
    \E fn \in Callers :
        /\ At(self, fn, "np.load")
        /\ _scheme_ids' = Object(reads.index)
        /\ Goto(self, fn, "return _index")
        /\ UNCHANGED <<call_vars, _schemes_df, AppState, _index, _model,
                       resources, reads>>

\* _get_index: return _index, _scheme_ids; in load_resources_for_api the index
\* is kept and _get_model follows, in semantic_search the search ends
ReturnIndex(self) ==
    \/ /\ At(self, "load", "return _index")
       /\ resources' = [resources EXCEPT ![self].faiss_index = _index]
       /\ Goto(self, "load", "_get_model")
       /\ UNCHANGED <<call_vars, _schemes_df, AppState, _index, _scheme_ids,
                      _model, reads>>
    \/ /\ At(self, "semantic_search", "return _index")
       /\ Goto(self, "done", "return")
       /\ UNCHANGED <<call_vars, _schemes_df, AppState, _index, _scheme_ids,
                      _model, resources, reads>>

\* _get_model: if _model is None
GetModel(self) ==
    \E fn \in Callers :
        /\ At(self, fn, "_get_model")
        /\ IF _model = None
           THEN Goto(self, fn, "SentenceTransformer")
           ELSE Goto(self, fn, "return _model")
        /\ UNCHANGED <<call_vars, _schemes_df, AppState, _index, _scheme_ids,
                       _model, resources, reads>>

\* _get_model: _model = SentenceTransformer(...)
MakeModel(self) ==
    \E fn \in Callers :
        /\ At(self, fn, "SentenceTransformer")
        /\ _model' = Object(reads.model + 1)
        /\ reads' = [reads EXCEPT !.model = @ + 1]
        /\ Goto(self, fn, "return _model")
        /\ UNCHANGED <<call_vars, _schemes_df, AppState, _index, _scheme_ids,
                       resources>>

\* _get_model: return _model; load_resources_for_api keeps the model,
\* semantic_search goes on to _get_index
ReturnModel(self) ==
    \/ /\ At(self, "load", "return _model")
       /\ resources' = [resources EXCEPT ![self].embed_model = _model]
       /\ Goto(self, "load", "self._ready = True")
       /\ UNCHANGED <<call_vars, _schemes_df, AppState, _index, _scheme_ids,
                      _model, reads>>
    \/ /\ At(self, "semantic_search", "return _model")
       /\ Goto(self, "semantic_search", "_get_index")
       /\ UNCHANGED <<call_vars, _schemes_df, AppState, _index, _scheme_ids,
                      _model, resources, reads>>

\* STATE.load: the resources are stored and _ready is set
StoreResources(self) ==
    /\ At(self, "load", "self._ready = True")
    /\ AppState' = [_ready |-> TRUE,
                    index |-> resources[self].faiss_index,
                    schemes |-> resources[self].schemes_df,
                    model |-> resources[self].embed_model]
    /\ IF self = PREFETCH THEN Goto(self, "done", "return")
       ELSE Goto(self, "rank_schemes", "load_schemes_data")
    /\ UNCHANGED <<call_vars, _schemes_df, _index, _scheme_ids, _model,
                   resources, reads>>

\* load_schemes_data in rank_schemes: if _schemes_df is None
LoadSchemesData(self) ==
    /\ At(self, "rank_schemes", "load_schemes_data")
    /\ IF _schemes_df = None
       THEN Goto(self, "rank_schemes", "pd.read_parquet")
       ELSE Goto(self, "semantic_search", "_get_model")
    /\ UNCHANGED <<call_vars, _schemes_df, AppState, _index, _scheme_ids,
                   _model, resources, reads>>

\* load_schemes_data: _schemes_df = pd.read_parquet(SCHEMES_PATH)
ReadSchemes(self) ==
    /\ At(self, "rank_schemes", "pd.read_parquet")
    /\ _schemes_df' = schemes_file
    /\ reads' = [reads EXCEPT !.dataset = @ + 1]
    /\ Goto(self, "semantic_search", "_get_model")
    /\ UNCHANGED <<call_vars, AppState, _index, _scheme_ids, _model, resources>>

LoadNext ==
    \E self \in Threads :
        \/ Load(self)
        \/ SetSchemesPath(self)
        \/ ReadParquet(self)
        \/ SetIndexPaths(self)
        \/ GetIndex(self)
        \/ ReadIndex(self)
        \/ LoadSchemeIds(self)
        \/ ReturnIndex(self)
        \/ GetModel(self)
        \/ MakeModel(self)
        \/ ReturnModel(self)
        \/ StoreResources(self)
        \/ LoadSchemesData(self)
        \/ ReadSchemes(self)

LoadSpec == LoadInit /\ [][LoadNext]_vars

\* a resource that is initialized stays the object it is
StaysAsInitialized ==
    /\ _schemes_df # None => _schemes_df' = _schemes_df
    /\ _index # None => _index' = _index
    /\ _scheme_ids # None => _scheme_ids' = _scheme_ids
    /\ _model # None => _model' = _model
    /\ AppState._ready => AppState' = AppState

\* C21: under every interleaving of the prefetch thread and the request
\* threads, STATE, the dataset, the index and the model are each initialized
\* at most once, and once initialized none of them is modified or reset.
C21_SingleFlightInitialization ==
    /\ [](reads.load <= 1 /\ reads.dataset <= 1 /\ reads.index <= 1
          /\ reads.model <= 1)
    /\ [][StaysAsInitialized]_vars

----------------------------------------------------------------------------
(* Properties of the result entries and of the gender buckets *)

\* what the claim calls the breakdown of a rule evaluation
BreakdownOf(evaluation) ==
    [required |-> evaluation.required,
     optional |-> evaluation.optional,
     matched_clauses |-> evaluation.matched_clauses,
     unmet_clauses |-> evaluation.unmet_clauses,
     unknown_clauses |-> evaluation.unknown_clauses]

\* the entry carries the breakdown of the evaluation, when there is one
CarriesBreakdown(entry, evaluation) ==
    ~evaluation.raised => entry.rule_breakdown = BreakdownOf(evaluation)

\* parsed is the spec of the record of the entry, as rank_schemes parsed it
CarriesBreakdownOfSpec(entry, parsed) ==
    ~parsed.raised =>
        CarriesBreakdown(entry, evaluate_scheme_rules(parsed.value, user_profile,
                                                      mapping_file))

\* C22: every candidate rank_schemes returns whose rules were evaluated
\* carries, as rule_breakdown, the required and optional summaries and the
\* matched_clauses, unmet_clauses and unknown_clauses lists of its evaluation.
C22_RuleBreakdownOfEvaluation ==
    RankSchemesReturned =>
        \A i \in 1..Len(ranked.value) :
            CarriesBreakdownOfSpec(
                ranked.value[i],
                Parsed(FirstWithId(_schemes_df.rows, ranked.value[i].scheme_id)
                           .eligibility_structured))

----------------------------------------------------------------------------
(* The inputs of extract_scheme_gender and split_by_gender_buckets *)

\* the longest ranked list split into buckets
MaxEntries == 3

V_F == <<"f">>

V_F_CAPITAL == <<"F">>

V_FEMALE_PADDED == <<" ", "F", "e", "m", "a", "l", "e", " ">>

V_WOMEN == <<"w", "o", "m", "e", "n">>

V_MAHILA == <<"m", "a", "h", "i", "l", "a">>

V_M == <<"m">>

V_MEN == <<"m", "e", "n">>

V_MEN_CAPITAL == <<"M", "e", "n">>

V_OTHER == <<"o", "t", "h", "e", "r">>

V_ANY == <<"a", "n", "y">>

F_GENDER_CAPITAL == <<"G", "e", "n", "d", "e", "r">>

N_MAHILA_SHETKARI == <<"M", "a", "h", "i", "l", "a", " ", "S", "h", "e", "t", "k", "a", "r", "i", " ", "Y", "o", "j", "a", "n", "a">>

T_MAN == <<"F", "o", "r", " ", "a", " ", "m", "a", "n", " ", "w", "h", "o", " ", "f", "a", "r", "m", "s">>

\* the values of a gender clause
GenderValues ==
    {PyStr(v) : v \in {V_F, V_F_CAPITAL, W_FEMALE, V_FEMALE_PADDED, W_WOMAN,
                       V_WOMEN, V_MAHILA, V_M, W_MALE, S_MALE_PADDED, W_MAN,
                       V_MEN, V_MEN_CAPITAL, V_OTHER, V_ANY, <<>>}}
    \cup {None}

GenderClause(field, value) == Clause(PyStr(field), PyStr(OP_EQ), value, Absent)

StateClause == Clause(PyStr(F_STATE), PyStr(OP_EQ), PyStr(S_KARNATAKA), Absent)

RequiredOnly(clauses) == PyDict(KEY_REQUIRED :> PyList(clauses))

\* the specs of the records: none, empty, a gender clause alone, behind a
\* clause on the state, under a capital field name, behind a gender clause
\* that names no gender, and in the optional scope
GenderSpecs ==
    {None, PyDict(<<>>), RequiredOnly(<<StateClause>>)}
    \cup {RequiredOnly(<<GenderClause(KEY_GENDER, v)>>) : v \in GenderValues}
    \cup {RequiredOnly(<<StateClause, GenderClause(F_GENDER_CAPITAL, v)>>) :
             v \in GenderValues}
    \cup {RequiredOnly(<<GenderClause(KEY_GENDER, PyStr(V_ANY)),
                         GenderClause(KEY_GENDER, v)>>) :
             v \in {PyStr(W_FEMALE), PyStr(W_MALE)}}
    \cup {PyDict(KEY_REQUIRED :> PyList(<<>>)
                 @@ KEY_OPTIONAL :> PyList(<<GenderClause(KEY_GENDER, v)>>)) :
             v \in {PyStr(W_FEMALE), PyStr(W_MALE)}}

SchemeNames ==
    {None, PyStr(N_KISAN), PyStr(N_MAHILA), PyStr(N_SHETKARI),
     PyStr(N_MAHILA_SHETKARI)}

RawTexts == {PyStr(<<>>), PyStr(T_LOANS), PyStr(T_WOMEN), PyStr(T_MAN)}

SchemeRecord(name, eligibility, raw) ==
    [scheme_name |-> name, eligibility_structured |-> eligibility,
     eligibility_raw |-> raw]

SchemeRecords ==
    {SchemeRecord(name, eligibility, raw) :
        name \in SchemeNames, eligibility \in GenderSpecs, raw \in RawTexts}

\* an entry of a ranked list, with what split_by_gender_buckets reads of it
BucketEntry(id, name, eligibility, description, final) ==
    [scheme_id |-> id, scheme_name |-> PyStr(name),
     eligibility_structured |-> eligibility, description |-> description,
     final_score |-> final]

\* entries restricted by a required clause, by the title and by the
\* description, and two that are open to all
BucketEntries ==
    { BucketEntry(ID_1, N_KISAN, KarnatakaAdults, T_LOANS, PyFrac(9, 10)),
      BucketEntry(ID_2, N_MAHILA, PyDict(<<>>), T_WOMEN, PyFrac(8, 10)),
      BucketEntry(ID_3, N_SCHOLARSHIP,
                  RequiredOnly(<<GenderClause(KEY_GENDER, PyStr(W_MALE))>>),
                  T_STUDENTS, PyFrac(7, 10)),
      BucketEntry(ID_4, N_SCHOLARSHIP, None, T_MAN, PyFrac(6, 10)),
      BucketEntry(ID_5, N_PENSION, ElderlyWomen, <<>>, PyFrac(5, 10)),
      BucketEntry(ID_GONE, N_SCHOLARSHIP, None, T_STUDENTS, PyFrac(5, 10)) }

\* the ranked lists: at most n entries of distinct schemes, in any order
RankedLists(n) ==
    {l \in SeqsUpTo(BucketEntries, n) :
        \A i, j \in 1..Len(l) : i < j => l[i].scheme_id # l[j].scheme_id}

----------------------------------------------------------------------------
(* The state machine: one call of extract_scheme_gender or of
   split_by_gender_buckets *)

GenderInit ==
    /\ \/ /\ scheme_record \in SchemeRecords
          /\ ranked_list = None
          /\ pc = "record"
       \/ /\ scheme_record = None
          /\ ranked_list \in RankedLists(MaxEntries)
          /\ pc = "list"
    /\ result = None
    /\ eligibility_structured = None
    /\ user_profile = None
    /\ mapping_file = Absent
    /\ single_rule = None
    /\ mapped_field = None
    /\ last_updated = None
    /\ today = None
    /\ penalty = None
    /\ schemes_file = Absent
    /\ _schemes_df = None
    /\ semantic_search = None
    /\ weights = None
    /\ top_k = 0
    /\ effective_weights = None
    /\ ranked = None
    /\ call = None
    /\ thread_pc = <<>>
    /\ AppState = None
    /\ _index = None
    /\ _scheme_ids = None
    /\ _model = None
    /\ resources = <<>>
    /\ reads = None

ExtractSchemeGender ==
    /\ pc = "record"
    /\ result' = extract_scheme_gender(scheme_record.scheme_name,
                                       scheme_record.eligibility_structured,
                                       scheme_record.eligibility_raw)
    /\ pc' = "extracted"
    /\ UNCHANGED <<eligibility_structured, user_profile, mapping_file,
                   engine_vars, freshness_vars, today, request_vars,
                   ranking_vars, load_vars, gender_vars>>

SplitByGenderBuckets ==
    /\ pc = "list"
    /\ result' = split_by_gender_buckets(ranked_list)
    /\ pc' = "split"
    /\ UNCHANGED <<eligibility_structured, user_profile, mapping_file,
                   engine_vars, freshness_vars, today, request_vars,
                   ranking_vars, load_vars, gender_vars>>

GenderNext == ExtractSchemeGender \/ SplitByGenderBuckets

GenderSpec == GenderInit /\ [][GenderNext]_vars

----------------------------------------------------------------------------
(* Properties of extract_scheme_gender and split_by_gender_buckets *)

Extracted == pc = "extracted" /\ ~result.raised

\* the values the clause of a record names as female and as male
FEMALE_VALUES == {V_F, W_FEMALE, W_WOMAN, V_WOMEN, V_MAHILA}

MALE_VALUES == {V_M, W_MALE, W_MAN, V_MEN}

RequiredClauses(record) ==
    IF record.eligibility_structured.t = "dict"
       /\ KEY_REQUIRED \in DOMAIN record.eligibility_structured.d
    THEN record.eligibility_structured.d[KEY_REQUIRED].items
    ELSE <<>>

IsGenderClause(clause) ==
    /\ KEY_FIELD \in DOMAIN clause.d
    /\ StrLower(clause.d[KEY_FIELD].s) = KEY_GENDER

\* the value of the one gender clause of the required scope, trimmed and in
\* lower case; None when the scope has no gender clause, or two, or the value
\* is no text
GenderClauseValue(clauses) ==
    IF Cardinality({i \in 1..Len(clauses) : IsGenderClause(clauses[i])}) # 1
    THEN None
    ELSE LET clause == clauses[CHOOSE i \in 1..Len(clauses) :
                                   IsGenderClause(clauses[i])]
         IN  IF clause.d[KEY_VALUE].t # "str" THEN None
             ELSE PyStr(StrLower(StrStrip(clause.d[KEY_VALUE].s)))

RequiredClauseFinding(g) ==
    GenderFinding(PyStr(g), PyFrac(95, 100), "required_clause")

NamedGender(value, finding) ==
    /\ value # None /\ value.s \in FEMALE_VALUES
           => finding = RequiredClauseFinding(W_FEMALE)
    /\ value # None /\ value.s \in MALE_VALUES
           => finding = RequiredClauseFinding(W_MALE)

\* C23: a gender clause of the required scope whose value, trimmed and in
\* lower case, is one of f, female, woman, women, mahila makes the record
\* female, one of m, male, man, men makes it male, with confidence 0.95 and
\* provenance required_clause.
C23_GenderClauseNormalized ==
    Extracted =>
        NamedGender(GenderClauseValue(RequiredClauses(scheme_record)),
                    result.value)

HasKeyword(text, words) ==
    text # None /\ HasWord(StrLower(text.s), words)

\* the finding by precedence: the required clause, the title with the female
\* keywords first, the raw text, none
ByPrecedence(from_clauses, title, raw) ==
    IF from_clauses # None
    THEN GenderFinding(from_clauses, PyFrac(95, 100), "required_clause")
    ELSE IF HasKeyword(title, FEMALE_WORDS)
    THEN GenderFinding(PyStr(W_FEMALE), PyFrac(85, 100), "title_heuristic")
    ELSE IF HasKeyword(title, MALE_WORDS)
    THEN GenderFinding(PyStr(W_MALE), PyFrac(80, 100), "title_heuristic")
    ELSE IF HasKeyword(raw, FEMALE_WORDS)
    THEN GenderFinding(PyStr(W_FEMALE), PyFrac(80, 100), "raw_text_heuristic")
    ELSE IF HasKeyword(raw, MALE_WORDS)
    THEN GenderFinding(PyStr(W_MALE), PyFrac(80, 100), "raw_text_heuristic")
    ELSE GenderFinding(None, PyNum(0), "none")

\* C24: extract_scheme_gender reports the gender of the required clause if
\* there is one (0.95, required_clause), else that of the title keywords,
\* female before male (0.85 and 0.80, title_heuristic), else that of the
\* keywords of the raw text (0.80, raw_text_heuristic), else none (0.0, none).
C24_SourcesInStrictPrecedence ==
    pc = "extracted" =>
        /\ ~result.raised
        /\ result.value =
               ByPrecedence(detect_gender_from_required_clauses(
                                scheme_record.eligibility_structured).value,
                            scheme_record.scheme_name,
                            scheme_record.eligibility_raw)

\* a required clause for men won over a title with a female keyword and a
\* raw text about women
C24_Witness ==
    /\ Extracted
    /\ scheme_record.scheme_name = PyStr(N_MAHILA_SHETKARI)
    /\ scheme_record.eligibility_raw = PyStr(T_WOMEN)
    /\ scheme_record.eligibility_structured =
           RequiredOnly(<<GenderClause(KEY_GENDER, PyStr(W_MALE))>>)
    /\ result.value = RequiredClauseFinding(W_MALE)

Split == pc = "split" /\ ~result.raised

\* the restriction extract_scheme_gender finds for an entry of the list
RestrictionOf(entry) ==
    extract_scheme_gender(entry.scheme_name, entry.eligibility_structured,
                          PyStr(entry.description)).value.gender

\* how often the entry stands in the bucket
TimesIn(entry, bucket) ==
    Cardinality({i \in 1..Len(bucket) : bucket[i] = entry})

\* the entry stands once in each of the buckets named and in no other
OnceIn(entry, buckets, names) ==
    /\ TimesIn(entry, buckets.male) = (IF "male" \in names THEN 1 ELSE 0)
    /\ TimesIn(entry, buckets.female) = (IF "female" \in names THEN 1 ELSE 0)
    /\ TimesIn(entry, buckets.neutral) = (IF "neutral" \in names THEN 1 ELSE 0)

PlacedByRestriction(entry, restriction, buckets) ==
    IF restriction = PyStr(W_FEMALE) THEN OnceIn(entry, buckets, {"female"})
    ELSE IF restriction = PyStr(W_MALE) THEN OnceIn(entry, buckets, {"male"})
    ELSE OnceIn(entry, buckets, {"male", "female", "neutral"})

OnlyEntriesOf(bucket, entries) ==
    \A i \in 1..Len(bucket) : \E j \in 1..Len(entries) : bucket[i] = entries[j]

\* C25: split_by_gender_buckets puts a female-restricted candidate in the
\* female bucket only, a male-restricted one in the male bucket only and an
\* unrestricted one in all three; every candidate of the input is placed,
\* once per bucket, and the buckets hold nothing else.
C25_BucketsPartitionByRestriction ==
    pc = "split" =>
        /\ ~result.raised
        /\ \A i \in 1..Len(ranked_list) :
               PlacedByRestriction(ranked_list[i], RestrictionOf(ranked_list[i]),
                                   result.value)
        /\ OnlyEntriesOf(result.value.male, ranked_list)
        /\ OnlyEntriesOf(result.value.female, ranked_list)
        /\ OnlyEntriesOf(result.value.neutral, ranked_list)

\* a list of a female-restricted, a male-restricted and an open candidate
\* was split into buckets of two, two and one
C25_Witness ==
    /\ Split
    /\ Len(ranked_list) = 3
    /\ \E i, j, k \in 1..3 :
           /\ RestrictionOf(ranked_list[i]) = PyStr(W_FEMALE)
           /\ RestrictionOf(ranked_list[j]) = PyStr(W_MALE)
           /\ RestrictionOf(ranked_list[k]) = None
    /\ Len(result.value.male) = 2
    /\ Len(result.value.female) = 2
    /\ Len(result.value.neutral) = 1

PositionIn(entry, entries) ==
    CHOOSE i \in 1..Len(entries) : entries[i] = entry

InOrderOf(bucket, entries) ==
    \A i, j \in 1..Len(bucket) :
        i < j => PositionIn(bucket[i], entries) < PositionIn(bucket[j], entries)

IsSortedByScore(entries) ==
    \A i, j \in 1..Len(entries) :
        i < j => ~NumLess(entries[i].final_score, entries[j].final_score)

KeepsOrder(bucket, entries) ==
    /\ InOrderOf(bucket, entries)
    /\ IsSortedByScore(entries) => IsSortedByScore(bucket)

\* C26: each bucket keeps the candidates in the relative order of the input
\* list, so the bucket of a list sorted by final_score is sorted by
\* final_score.
C26_BucketsKeepInputOrder ==
    Split =>
        /\ KeepsOrder(result.value.male, ranked_list)
        /\ KeepsOrder(result.value.female, ranked_list)
        /\ KeepsOrder(result.value.neutral, ranked_list)

ForConsumer ==
    /\ Returning
    /\ call.fn \in {"rank_schemes_for_profile", "rank_schemes_for_api"}

\* the gender the requester declared: the gender_bucket of the request if
\* one is given, the gender of the profile otherwise
DeclaredGender ==
    IF call.fn = "rank_schemes_for_api" /\ Truthy(call.gender_bucket)
    THEN call.gender_bucket
    ELSE user_profile.d[KEY_GENDER]

DeclaredAs(word) ==
    /\ DeclaredGender # None
    /\ StrLower(StrStrip(DeclaredGender.s)) = word

\* the buckets of the list rank_schemes returns for the request
BucketsOfRequest ==
    split_by_gender_buckets(RankLoaded(_schemes_df, semantic_search,
                                       user_profile, mapping_file, today,
                                       effective_weights, top_k)).value

IsBucketFor(returned, buckets) ==
    IF DeclaredAs(W_MALE) THEN returned = buckets.male
    ELSE IF DeclaredAs(W_FEMALE) THEN returned = buckets.female
    ELSE returned = buckets.neutral

DistinctBuckets(buckets) ==
    /\ buckets.male # buckets.female
    /\ buckets.male # buckets.neutral
    /\ buckets.female # buckets.neutral

----------------------------------------------------------------------------
(* rule_engine.evaluate_scheme_eligibility *)

\* the structured rules of a record: Raised is the AttributeError of
\* structured.get on the value json.loads made of the text
Structured(raw_structured) ==
    IF ~Truthy(raw_structured) THEN Returned(<<>>)
    ELSE IF raw_structured.t = "str"
    THEN IF json_loads(raw_structured.s).raised THEN Returned(<<>>)
         ELSE IF json_loads(raw_structured.s).value.t = "dict"
         THEN Returned(json_loads(raw_structured.s).value.d)
         ELSE Raised
    ELSE IF raw_structured.t = "dict" THEN Returned(raw_structured.d)
    ELSE Returned(<<>>)

\* structured.get(key) or []: can the loop run over it
Iterable(rules) == ~Truthy(rules) \/ rules.t \in {"list", "str", "dict"}

\* the items of structured.get(key) or [] that are dicts
DictRules(rules) ==
    IF Truthy(rules) /\ rules.t = "list"
    THEN SelectSeq(rules.items, LAMBDA rule : rule.t = "dict")
    ELSE <<>>

Evals(rules, profile, field_mapping) ==
    [i \in 1..Len(rules) |->
        _evaluate_single_rule(rules[i], profile, field_mapping)]

\* sum(1 for ev in evals if ev.passed is ...)
CountPassed(evals, passed) ==
    Cardinality({i \in 1..Len(evals) : evals[i].passed = passed})

Overall(req_passed, req_failed, req_unknown) ==
    IF req_failed > 0 THEN PyBool(FALSE)
    ELSE IF req_unknown > 0 /\ req_passed = 0 THEN None
    ELSE PyBool(TRUE)

Summary(required_evals, optional_evals) ==
    [required_passed |-> CountPassed(required_evals, PyBool(TRUE)),
     required_failed |-> CountPassed(required_evals, PyBool(FALSE)),
     required_unknown |-> CountPassed(required_evals, None),
     optional_passed |-> CountPassed(optional_evals, PyBool(TRUE)),
     optional_failed |-> CountPassed(optional_evals, PyBool(FALSE)),
     optional_unknown |-> CountPassed(optional_evals, None)]

Eligibility(required_evals, optional_evals, summary) ==
    [is_eligible |-> Overall(summary.required_passed, summary.required_failed,
                             summary.required_unknown),
     required |-> required_evals,
     optional |-> optional_evals,
     summary |-> summary]

EvaluatedEligibility(required_evals, optional_evals) ==
    Eligibility(required_evals, optional_evals,
                Summary(required_evals, optional_evals))

StructuredEligibility(structured, profile, field_mapping) ==
    IF structured.raised THEN Raised
    ELSE IF ~Iterable(DictGet(structured.value, KEY_REQUIRED))
            \/ ~Iterable(DictGet(structured.value, KEY_OPTIONAL))
    THEN Raised
    ELSE Returned(EvaluatedEligibility(
             Evals(DictRules(DictGet(structured.value, KEY_REQUIRED)),
                   profile, field_mapping),
             Evals(DictRules(DictGet(structured.value, KEY_OPTIONAL)),
                   profile, field_mapping)))

\* scheme_row is given by its eligibility_structured
evaluate_scheme_eligibility(scheme_row, profile, mapping) ==
    StructuredEligibility(Structured(scheme_row), profile,
                          _load_field_mapping(mapping))

----------------------------------------------------------------------------
(* The inputs of evaluate_scheme_eligibility *)

MaxRules == 2

\* rules on the state, the age, the income and a field no profile has, and
\* an item that is no rule
EligibilityItems ==
    { Clause(PyStr(F_STATE), PyStr(OP_EQ), PyStr(S_KARNATAKA), Absent),
      Clause(PyStr(F_AGE), PyStr(OP_GE), PyNum(18), Absent),
      Clause(PyStr(KEY_INCOME_ANNUAL), PyStr(OP_LE), PyNum(100000), Absent),
      Clause(PyStr(F_HOBBY), PyStr(OP_EQ), PyStr(S_GOA), Absent),
      PyStr(F_STATE) }

RuleLists(n) ==
    {Absent, None} \cup {PyList(l) : l \in SeqsUpTo(EligibilityItems, n)}

SchemeRows ==
    {PyDict(DropAbsent(KEY_REQUIRED :> r @@ KEY_OPTIONAL :> o)) :
        r \in RuleLists(MaxRules), o \in RuleLists(1)}
    \cup {None, PyStr(J_EMPTY_OBJECT), PyStr(J_UNCLOSED), PyStr(J_NULL),
          PyList(<<>>), PyNum(7)}

----------------------------------------------------------------------------
(* The state machine: evaluate_scheme_eligibility on one record *)

EligibilityInit ==
    /\ eligibility_structured \in SchemeRows
    /\ user_profile \in EngineProfiles
    /\ mapping_file \in MappingFiles
    /\ result = None
    /\ single_rule = None
    /\ mapped_field = None
    /\ last_updated = None
    /\ today = None
    /\ penalty = None
    /\ schemes_file = Absent
    /\ _schemes_df = None
    /\ semantic_search = None
    /\ weights = None
    /\ top_k = 0
    /\ effective_weights = None
    /\ ranked = None
    /\ call = None
    /\ NoServer
    /\ pc = "scheme"

EvaluateSchemeEligibility ==
    /\ pc = "scheme"
    /\ result' = evaluate_scheme_eligibility(eligibility_structured,
                                             user_profile, mapping_file)
    /\ pc' = "decided"
    /\ UNCHANGED <<eligibility_structured, user_profile, mapping_file,
                   engine_vars, freshness_vars, today, request_vars,
                   ranking_vars, load_vars, gender_vars>>

EligibilityNext == EvaluateSchemeEligibility

EligibilitySpec == EligibilityInit /\ [][EligibilityNext]_vars

----------------------------------------------------------------------------
(* Properties of evaluate_scheme_eligibility *)

Decided == pc = "decided" /\ ~result.raised

RequiredWith(passed) == CountPassed(result.value.required, passed)

\* C28: is_eligible is False if a required rule failed, None if none failed
\* and a required rule is unknown, True otherwise, also without required
\* rules, whatever the optional rules gave.
C28_EligibleByRequiredRulesOnly ==
    Decided =>
        result.value.is_eligible =
            (IF RequiredWith(PyBool(FALSE)) > 0 THEN PyBool(FALSE)
             ELSE IF RequiredWith(None) > 0 THEN None
             ELSE PyBool(TRUE))

----------------------------------------------------------------------------
(* Properties of the counts of evaluate_scheme_rules *)

STATUSES == {"matched", "unmet", "unknown"}

\* the counts of a scope add up to its total, which counts its clauses
CountsAddUp(summary) ==
    /\ summary.matched + summary.unmet + summary.unknown = summary.total
    /\ summary.total = Len(summary.clauses)
    /\ \A i \in 1..Len(summary.clauses) : summary.clauses[i].status \in STATUSES
    /\ \A status \in STATUSES :
           CountStatus(summary.clauses, status) =
               (CASE status = "matched" -> summary.matched
                  [] status = "unmet" -> summary.unmet
                  [] OTHER -> summary.unknown)

\* the list of the result for a status
TopLevel(r, status) ==
    CASE status = "matched" -> r.matched_clauses
      [] status = "unmet" -> r.unmet_clauses
      [] OTHER -> r.unknown_clauses

\* the clause stands in the list of its status as often as among the
\* evaluated clauses and in no other list
ListedByStatus(clause, r, evaluated) ==
    \A status \in STATUSES :
        TimesIn(clause, TopLevel(r, status)) =
            (IF clause.status = status THEN TimesIn(clause, evaluated) ELSE 0)

----------------------------------------------------------------------------
(* The state machine: a sequence of rank_schemes and set_schemes_path calls *)

MaxCalls == 4

\* the file a path may name: none, one without records, one with records
PathFiles == {Absent, Frame(<<>>), Frame(SmallDataset)}

SessionWeights == {API_WEIGHTS, Weights(PyFrac(6, 10), PyFrac(4, 10), PyNum(2))}

SessionSearches ==
    { RaisedList,
      Returned(<<Candidate(ID_1, PyNum(1)), Candidate(ID_2, PyFrac(1, 2))>>) }

\* reads.calls: the calls made; reads.attempts: the calls of pd.read_parquet
SessionInit ==
    /\ schemes_file \in PathFiles
    /\ _schemes_df = None
    /\ reads = [calls |-> 0, attempts |-> 0]
    /\ user_profile = KarnatakaWoman
    /\ mapping_file = Absent
    /\ today = Date(2025, 6, 15)
    /\ top_k = 2
    /\ weights = API_WEIGHTS
    /\ semantic_search = RaisedList
    /\ effective_weights = None
    /\ ranked = None
    /\ call = None
    /\ eligibility_structured = None
    /\ result = None
    /\ single_rule = None
    /\ mapped_field = None
    /\ last_updated = None
    /\ penalty = None
    /\ thread_pc = <<>>
    /\ AppState = None
    /\ _index = None
    /\ _scheme_ids = None
    /\ _model = None
    /\ resources = <<>>
    /\ scheme_record = None
    /\ ranked_list = None
    /\ pc = "session"

\* one more call; attempted: it called pd.read_parquet
Called(fn, attempted) ==
    /\ call' = [fn |-> fn, gender_bucket |-> None]
    /\ reads' = [calls |-> reads.calls + 1,
                 attempts |-> reads.attempts + (IF attempted THEN 1 ELSE 0)]

\* rank_schemes: load_schemes_data reads the file if nothing is cached
SessionRankSchemes ==
    /\ pc = "session"
    /\ reads.calls < MaxCalls
    /\ \E w \in SessionWeights, search \in SessionSearches :
           /\ weights' = w
           /\ semantic_search' = search
           /\ ranked' = Ranking(_schemes_df, schemes_file, search, user_profile,
                                mapping_file, today, w, top_k).ranked
           /\ effective_weights' =
                  Ranking(_schemes_df, schemes_file, search, user_profile,
                          mapping_file, today, w, top_k).effective_weights
           /\ _schemes_df' = Ranking(_schemes_df, schemes_file, search,
                                     user_profile, mapping_file, today, w,
                                     top_k).cache
           /\ Called("rank_schemes", ValidWeights(w) /\ _schemes_df = None)
    /\ UNCHANGED <<eligibility_structured, user_profile, mapping_file, result,
                   pc, engine_vars, freshness_vars, today, schemes_file, top_k,
                   thread_pc, AppState, _index, _scheme_ids, _model, resources,
                   gender_vars>>

\* set_schemes_path(path): file is what the path names
SessionSetSchemesPath ==
    /\ pc = "session"
    /\ reads.calls < MaxCalls
    /\ \E file \in PathFiles : schemes_file' = file
    /\ _schemes_df' = None
    /\ Called("set_schemes_path", FALSE)
    /\ UNCHANGED <<eligibility_structured, user_profile, mapping_file, result,
                   pc, engine_vars, freshness_vars, today, semantic_search,
                   weights, top_k, effective_weights, ranked, thread_pc,
                   AppState, _index, _scheme_ids, _model, resources,
                   gender_vars>>

\* the file at SCHEMES_PATH is written or removed behind the program's back
WriteSchemesFile ==
    /\ pc = "session"
    /\ reads.calls < MaxCalls
    /\ \E file \in PathFiles \ {schemes_file} : schemes_file' = file
    /\ Called("write", FALSE)
    /\ UNCHANGED <<eligibility_structured, user_profile, mapping_file, result,
                   pc, engine_vars, freshness_vars, today, semantic_search,
                   weights, top_k, _schemes_df, effective_weights, ranked,
                   thread_pc, AppState, _index, _scheme_ids, _model, resources,
                   gender_vars>>

SessionNext == SessionRankSchemes \/ SessionSetSchemesPath \/ WriteSchemesFile

SessionSpec == SessionInit /\ [][SessionNext]_vars

----------------------------------------------------------------------------
(* Properties of a sequence of calls *)

\* this step is a call of rank_schemes that returned
RankSchemesReturns ==
    /\ reads.calls' = reads.calls + 1
    /\ call'.fn = "rank_schemes"
    /\ ~ranked'.raised

SetSchemesPathReturns ==
    /\ reads.calls' = reads.calls + 1
    /\ call'.fn = "set_schemes_path"

HoldsEmptyDataset == _schemes_df # None /\ _schemes_df.rows = <<>>

\* a call with an empty dataset cached returns [] and reads nothing
StaysEmpty ==
    (HoldsEmptyDataset /\ RankSchemesReturns) =>
        /\ ranked'.value = <<>>
        /\ _schemes_df' = _schemes_df
        /\ reads.attempts' = reads.attempts

\* a call with nothing cached reads the file; if that fails, it caches an
\* empty dataset
ReadsWhenCleared ==
    (_schemes_df = None /\ RankSchemesReturns) =>
        /\ reads.attempts' = reads.attempts + 1
        /\ _schemes_df' = (IF schemes_file = Absent THEN Frame(<<>>)
                           ELSE schemes_file)

\* set_schemes_path clears the cache, and nothing else ends the empty one
OnlySetSchemesPathClears ==
    /\ SetSchemesPathReturns => _schemes_df' = None
    /\ (HoldsEmptyDataset /\ _schemes_df' # _schemes_df) => SetSchemesPathReturns

\* C30: once a load has failed, load_schemes_data holds an empty dataset and
\* every later rank_schemes call returns [] without reading the file, also
\* when the file has become readable, until set_schemes_path is called;
\* set_schemes_path clears the cache and the next call reads the file again.
C30_FailedLoadIsSticky ==
    [][StaysEmpty /\ ReadsWhenCleared /\ OnlySetSchemesPathClears]_vars

\* the one read failed, the file was written afterwards, and the call after
\* it still returned [] from the empty dataset
C30_Witness ==
    /\ pc = "session"
    /\ reads.attempts = 1
    /\ reads.calls >= 3
    /\ HoldsEmptyDataset
    /\ schemes_file = Frame(SmallDataset)
    /\ call.fn = "rank_schemes"
    /\ ranked = Returned(<<>>)

====
